---- MODULE Spec2Model ----
(***************************************************************************)
(* Model of src/main.py: the /processar-nota endpoint of the fiscal        *)
(* receipt API (existence check, page fetch, extraction, header and item   *)
(* inserts inside one database transaction).                               *)
(*                                                                         *)
(* Text is a sequence of characters, one string for each.  A printable     *)
(* character up to U+00FF is written as itself ("a", "ú", " "), tab, line  *)
(* feed, form feed and carriage return as "\t", "\n", "\f", "\r", and     *)
(* every other character as U+ and its code point in four to six           *)
(* hexadecimal digits: "U+00A0" is the no-break space, "U+0663" the        *)
(* Arabic-Indic digit three.  An optional value (a span, a table, a regex  *)
(* match that may be None) is the empty sequence or a one-element          *)
(* sequence holding the value.                                             *)
(*                                                                         *)
(* Outside the model: the timestamps datetime.now() writes into            *)
(* data_processamento and data_coleta (no branch reads them); the SERIAL   *)
(* id of historico_precos (nothing refers to it; the table is kept in      *)
(* insertion order); a request body that is not JSON; a failure of COMMIT  *)
(* itself or of closing the connection.  A number is kept as the decimal   *)
(* its text denotes, where float() keeps the nearest binary64 number and a *)
(* REAL column the nearest binary32 number; what the code and the database *)
(* decide on a number (infinity, zero, the range of REAL) is decided as    *)
(* for the binary64 number.                                                *)
(*                                                                         *)
(* Spec runs the requests concurrently over the pages of Pages, each with  *)
(* a url pydantic takes and an x-api-key header.  SpecUmaPorVez serves     *)
(* them one at a time over those pages and the pages of MaisPaginas, and   *)
(* also the requests with a url pydantic refuses or without the header;    *)
(* a statement failing in the database for no reason of the request        *)
(* (DbFault) is part of Spec only.                                         *)
(***************************************************************************)
EXTENDS Integers, Sequences, FiniteSets

(***************************************************************************)
(* Text helpers: the str methods and regular expressions the code uses.    *)
(***************************************************************************)

\* Characters str.strip() removes and the regex class \s matches on a str:
\* those of str.isspace() (Unicode 14).
WS ==
    {"\t", "\n", "U+000B", "\f", "\r", "U+001C", "U+001D", "U+001E",
     "U+001F", " ", "U+0085", "U+00A0", "U+1680", "U+2000", "U+2001",
     "U+2002", "U+2003", "U+2004", "U+2005", "U+2006", "U+2007", "U+2008",
     "U+2009", "U+200A", "U+2028", "U+2029", "U+202F", "U+205F", "U+3000"}

\* The whitespace float() skips at either end of its argument: that of
\* str.strip() without the four separators U+001C..U+001F.
FloatWS == WS \ {"U+001C", "U+001D", "U+001E", "U+001F"}

\* The decimal digits of Unicode 14, by value: DecimalDigits[v + 1] holds
\* the characters of value v.
DecimalDigits ==
    <<
      {"0", "U+0660", "U+06F0", "U+07C0", "U+0966", "U+09E6", "U+0A66",
       "U+0AE6", "U+0B66", "U+0BE6", "U+0C66", "U+0CE6", "U+0D66", "U+0DE6",
       "U+0E50", "U+0ED0", "U+0F20", "U+1040", "U+1090", "U+17E0", "U+1810",
       "U+1946", "U+19D0", "U+1A80", "U+1A90", "U+1B50", "U+1BB0", "U+1C40",
       "U+1C50", "U+A620", "U+A8D0", "U+A900", "U+A9D0", "U+A9F0", "U+AA50",
       "U+ABF0", "U+FF10", "U+104A0", "U+10D30", "U+11066", "U+110F0",
       "U+11136", "U+111D0", "U+112F0", "U+11450", "U+114D0", "U+11650",
       "U+116C0", "U+11730", "U+118E0", "U+11950", "U+11C50", "U+11D50",
       "U+11DA0", "U+16A60", "U+16AC0", "U+16B50", "U+1D7CE", "U+1D7D8",
       "U+1D7E2", "U+1D7EC", "U+1D7F6", "U+1E140", "U+1E2F0", "U+1E950",
       "U+1FBF0"},
      {"1", "U+0661", "U+06F1", "U+07C1", "U+0967", "U+09E7", "U+0A67",
       "U+0AE7", "U+0B67", "U+0BE7", "U+0C67", "U+0CE7", "U+0D67", "U+0DE7",
       "U+0E51", "U+0ED1", "U+0F21", "U+1041", "U+1091", "U+17E1", "U+1811",
       "U+1947", "U+19D1", "U+1A81", "U+1A91", "U+1B51", "U+1BB1", "U+1C41",
       "U+1C51", "U+A621", "U+A8D1", "U+A901", "U+A9D1", "U+A9F1", "U+AA51",
       "U+ABF1", "U+FF11", "U+104A1", "U+10D31", "U+11067", "U+110F1",
       "U+11137", "U+111D1", "U+112F1", "U+11451", "U+114D1", "U+11651",
       "U+116C1", "U+11731", "U+118E1", "U+11951", "U+11C51", "U+11D51",
       "U+11DA1", "U+16A61", "U+16AC1", "U+16B51", "U+1D7CF", "U+1D7D9",
       "U+1D7E3", "U+1D7ED", "U+1D7F7", "U+1E141", "U+1E2F1", "U+1E951",
       "U+1FBF1"},
      {"2", "U+0662", "U+06F2", "U+07C2", "U+0968", "U+09E8", "U+0A68",
       "U+0AE8", "U+0B68", "U+0BE8", "U+0C68", "U+0CE8", "U+0D68", "U+0DE8",
       "U+0E52", "U+0ED2", "U+0F22", "U+1042", "U+1092", "U+17E2", "U+1812",
       "U+1948", "U+19D2", "U+1A82", "U+1A92", "U+1B52", "U+1BB2", "U+1C42",
       "U+1C52", "U+A622", "U+A8D2", "U+A902", "U+A9D2", "U+A9F2", "U+AA52",
       "U+ABF2", "U+FF12", "U+104A2", "U+10D32", "U+11068", "U+110F2",
       "U+11138", "U+111D2", "U+112F2", "U+11452", "U+114D2", "U+11652",
       "U+116C2", "U+11732", "U+118E2", "U+11952", "U+11C52", "U+11D52",
       "U+11DA2", "U+16A62", "U+16AC2", "U+16B52", "U+1D7D0", "U+1D7DA",
       "U+1D7E4", "U+1D7EE", "U+1D7F8", "U+1E142", "U+1E2F2", "U+1E952",
       "U+1FBF2"},
      {"3", "U+0663", "U+06F3", "U+07C3", "U+0969", "U+09E9", "U+0A69",
       "U+0AE9", "U+0B69", "U+0BE9", "U+0C69", "U+0CE9", "U+0D69", "U+0DE9",
       "U+0E53", "U+0ED3", "U+0F23", "U+1043", "U+1093", "U+17E3", "U+1813",
       "U+1949", "U+19D3", "U+1A83", "U+1A93", "U+1B53", "U+1BB3", "U+1C43",
       "U+1C53", "U+A623", "U+A8D3", "U+A903", "U+A9D3", "U+A9F3", "U+AA53",
       "U+ABF3", "U+FF13", "U+104A3", "U+10D33", "U+11069", "U+110F3",
       "U+11139", "U+111D3", "U+112F3", "U+11453", "U+114D3", "U+11653",
       "U+116C3", "U+11733", "U+118E3", "U+11953", "U+11C53", "U+11D53",
       "U+11DA3", "U+16A63", "U+16AC3", "U+16B53", "U+1D7D1", "U+1D7DB",
       "U+1D7E5", "U+1D7EF", "U+1D7F9", "U+1E143", "U+1E2F3", "U+1E953",
       "U+1FBF3"},
      {"4", "U+0664", "U+06F4", "U+07C4", "U+096A", "U+09EA", "U+0A6A",
       "U+0AEA", "U+0B6A", "U+0BEA", "U+0C6A", "U+0CEA", "U+0D6A", "U+0DEA",
       "U+0E54", "U+0ED4", "U+0F24", "U+1044", "U+1094", "U+17E4", "U+1814",
       "U+194A", "U+19D4", "U+1A84", "U+1A94", "U+1B54", "U+1BB4", "U+1C44",
       "U+1C54", "U+A624", "U+A8D4", "U+A904", "U+A9D4", "U+A9F4", "U+AA54",
       "U+ABF4", "U+FF14", "U+104A4", "U+10D34", "U+1106A", "U+110F4",
       "U+1113A", "U+111D4", "U+112F4", "U+11454", "U+114D4", "U+11654",
       "U+116C4", "U+11734", "U+118E4", "U+11954", "U+11C54", "U+11D54",
       "U+11DA4", "U+16A64", "U+16AC4", "U+16B54", "U+1D7D2", "U+1D7DC",
       "U+1D7E6", "U+1D7F0", "U+1D7FA", "U+1E144", "U+1E2F4", "U+1E954",
       "U+1FBF4"},
      {"5", "U+0665", "U+06F5", "U+07C5", "U+096B", "U+09EB", "U+0A6B",
       "U+0AEB", "U+0B6B", "U+0BEB", "U+0C6B", "U+0CEB", "U+0D6B", "U+0DEB",
       "U+0E55", "U+0ED5", "U+0F25", "U+1045", "U+1095", "U+17E5", "U+1815",
       "U+194B", "U+19D5", "U+1A85", "U+1A95", "U+1B55", "U+1BB5", "U+1C45",
       "U+1C55", "U+A625", "U+A8D5", "U+A905", "U+A9D5", "U+A9F5", "U+AA55",
       "U+ABF5", "U+FF15", "U+104A5", "U+10D35", "U+1106B", "U+110F5",
       "U+1113B", "U+111D5", "U+112F5", "U+11455", "U+114D5", "U+11655",
       "U+116C5", "U+11735", "U+118E5", "U+11955", "U+11C55", "U+11D55",
       "U+11DA5", "U+16A65", "U+16AC5", "U+16B55", "U+1D7D3", "U+1D7DD",
       "U+1D7E7", "U+1D7F1", "U+1D7FB", "U+1E145", "U+1E2F5", "U+1E955",
       "U+1FBF5"},
      {"6", "U+0666", "U+06F6", "U+07C6", "U+096C", "U+09EC", "U+0A6C",
       "U+0AEC", "U+0B6C", "U+0BEC", "U+0C6C", "U+0CEC", "U+0D6C", "U+0DEC",
       "U+0E56", "U+0ED6", "U+0F26", "U+1046", "U+1096", "U+17E6", "U+1816",
       "U+194C", "U+19D6", "U+1A86", "U+1A96", "U+1B56", "U+1BB6", "U+1C46",
       "U+1C56", "U+A626", "U+A8D6", "U+A906", "U+A9D6", "U+A9F6", "U+AA56",
       "U+ABF6", "U+FF16", "U+104A6", "U+10D36", "U+1106C", "U+110F6",
       "U+1113C", "U+111D6", "U+112F6", "U+11456", "U+114D6", "U+11656",
       "U+116C6", "U+11736", "U+118E6", "U+11956", "U+11C56", "U+11D56",
       "U+11DA6", "U+16A66", "U+16AC6", "U+16B56", "U+1D7D4", "U+1D7DE",
       "U+1D7E8", "U+1D7F2", "U+1D7FC", "U+1E146", "U+1E2F6", "U+1E956",
       "U+1FBF6"},
      {"7", "U+0667", "U+06F7", "U+07C7", "U+096D", "U+09ED", "U+0A6D",
       "U+0AED", "U+0B6D", "U+0BED", "U+0C6D", "U+0CED", "U+0D6D", "U+0DED",
       "U+0E57", "U+0ED7", "U+0F27", "U+1047", "U+1097", "U+17E7", "U+1817",
       "U+194D", "U+19D7", "U+1A87", "U+1A97", "U+1B57", "U+1BB7", "U+1C47",
       "U+1C57", "U+A627", "U+A8D7", "U+A907", "U+A9D7", "U+A9F7", "U+AA57",
       "U+ABF7", "U+FF17", "U+104A7", "U+10D37", "U+1106D", "U+110F7",
       "U+1113D", "U+111D7", "U+112F7", "U+11457", "U+114D7", "U+11657",
       "U+116C7", "U+11737", "U+118E7", "U+11957", "U+11C57", "U+11D57",
       "U+11DA7", "U+16A67", "U+16AC7", "U+16B57", "U+1D7D5", "U+1D7DF",
       "U+1D7E9", "U+1D7F3", "U+1D7FD", "U+1E147", "U+1E2F7", "U+1E957",
       "U+1FBF7"},
      {"8", "U+0668", "U+06F8", "U+07C8", "U+096E", "U+09EE", "U+0A6E",
       "U+0AEE", "U+0B6E", "U+0BEE", "U+0C6E", "U+0CEE", "U+0D6E", "U+0DEE",
       "U+0E58", "U+0ED8", "U+0F28", "U+1048", "U+1098", "U+17E8", "U+1818",
       "U+194E", "U+19D8", "U+1A88", "U+1A98", "U+1B58", "U+1BB8", "U+1C48",
       "U+1C58", "U+A628", "U+A8D8", "U+A908", "U+A9D8", "U+A9F8", "U+AA58",
       "U+ABF8", "U+FF18", "U+104A8", "U+10D38", "U+1106E", "U+110F8",
       "U+1113E", "U+111D8", "U+112F8", "U+11458", "U+114D8", "U+11658",
       "U+116C8", "U+11738", "U+118E8", "U+11958", "U+11C58", "U+11D58",
       "U+11DA8", "U+16A68", "U+16AC8", "U+16B58", "U+1D7D6", "U+1D7E0",
       "U+1D7EA", "U+1D7F4", "U+1D7FE", "U+1E148", "U+1E2F8", "U+1E958",
       "U+1FBF8"},
      {"9", "U+0669", "U+06F9", "U+07C9", "U+096F", "U+09EF", "U+0A6F",
       "U+0AEF", "U+0B6F", "U+0BEF", "U+0C6F", "U+0CEF", "U+0D6F", "U+0DEF",
       "U+0E59", "U+0ED9", "U+0F29", "U+1049", "U+1099", "U+17E9", "U+1819",
       "U+194F", "U+19D9", "U+1A89", "U+1A99", "U+1B59", "U+1BB9", "U+1C49",
       "U+1C59", "U+A629", "U+A8D9", "U+A909", "U+A9D9", "U+A9F9", "U+AA59",
       "U+ABF9", "U+FF19", "U+104A9", "U+10D39", "U+1106F", "U+110F9",
       "U+1113F", "U+111D9", "U+112F9", "U+11459", "U+114D9", "U+11659",
       "U+116C9", "U+11739", "U+118E9", "U+11959", "U+11C59", "U+11D59",
       "U+11DA9", "U+16A69", "U+16AC9", "U+16B59", "U+1D7D7", "U+1D7E1",
       "U+1D7EB", "U+1D7F5", "U+1D7FF", "U+1E149", "U+1E2F9", "U+1E959",
       "U+1FBF9"}
    >>

\* Characters the regex class \d matches on a str (no re.ASCII flag).
Digits == UNION {DecimalDigits[v] : v \in 1..10}

AsciiDigits == <<"0", "1", "2", "3", "4", "5", "6", "7", "8", "9">>

\* The value int() and float() give a decimal digit.
DigitVal(c) == (CHOOSE v \in 1..10 : c \in DecimalDigits[v]) - 1

\* int(s) for a sequence of digits; the empty sequence counts as 0.
RECURSIVE NatOf(_)
NatOf(s) ==
    IF s = <<>> THEN 0
    ELSE 10 * NatOf(SubSeq(s, 1, Len(s) - 1)) + DigitVal(s[Len(s)])

RECURSIVE LStrip(_)
LStrip(s) ==
    IF s # <<>> /\ s[1] \in WS THEN LStrip(Tail(s)) ELSE s

RECURSIVE RStrip(_)
RStrip(s) ==
    IF s # <<>> /\ s[Len(s)] \in WS THEN RStrip(SubSeq(s, 1, Len(s) - 1)) ELSE s

\* str.strip()
Strip(s) == RStrip(LStrip(s))

\* Mutant of SplitLast: s.split(':', 1)[-1], the text after the first colon.
SplitPrimeiro(s) ==
    LET cols == {i \in 1..Len(s) : s[i] = ":"}
    IN  IF cols = {} THEN s
        ELSE LET k == CHOOSE i \in cols : \A j \in cols : i <= j
             IN  SubSeq(s, k + 1, Len(s))

\* s.split(':')[-1]: the text after the last colon, the whole text if none.
SplitLast(s) ==
    LET cols == {i \in 1..Len(s) : s[i] = ":"}
    IN  IF cols = {} THEN s
        ELSE LET k == CHOOSE i \in cols : \A j \in cols : j <= i
             IN  SubSeq(s, k + 1, Len(s))

\* s.replace(',', '.')
CommaToPoint(s) == [i \in 1..Len(s) |-> IF s[i] = "," THEN "." ELSE s[i]]

\* s.replace('\n', '')
DropNewlines(s) == SelectSeq(s, LAMBDA c : c # "\n")

\* s.startswith(p)
StartsWith(s, p) == Len(s) >= Len(p) /\ SubSeq(s, 1, Len(p)) = p

\* The longest run of digits of s that starts at position i (greedy \d+ or \d*).
RECURSIVE DigitRun(_, _)
DigitRun(s, i) ==
    IF i <= Len(s) /\ s[i] \in Digits THEN <<s[i]>> \o DigitRun(s, i + 1) ELSE <<>>

\* The first position at or after i that is not whitespace (greedy \s*).
RECURSIVE SkipWS(_, _)
SkipWS(s, i) ==
    IF i <= Len(s) /\ s[i] \in WS THEN SkipWS(s, i + 1) ELSE i

\* re.search(r'\d+', s): the first run of digits, as an optional value.
FirstDigitRun(s) ==
    LET ds == {i \in 1..Len(s) : s[i] \in Digits}
    IN  IF ds = {} THEN <<>>
        ELSE <<DigitRun(s, CHOOSE i \in ds : \A j \in ds : i <= j)>>

(***************************************************************************)
(* float().  The result is a record:                                       *)
(*   [ok |-> FALSE, ...]          the ValueError float() raises            *)
(*   kind "finite", neg, m, e     the decimal (-1)^neg * m * 10^e, with m  *)
(*                                a sequence of ASCII digits that neither  *)
(*                                starts nor ends with "0" (empty: zero,   *)
(*                                with e = 0)                              *)
(*   kind "inf", neg              plus or minus infinity                   *)
(*   kind "nan"                   not a number                             *)
(* A text float() accepts is, between optional whitespace and after an     *)
(* optional sign, one of inf, infinity, nan in any letter case, or digits  *)
(* with at most one point and at least one digit, and an optional          *)
(* exponent (e or E, an optional sign, digits); a digit is any decimal     *)
(* digit of Unicode, and single underscores may stand between two digits.  *)
(* A finite value is the exact decimal the text spells: float() rounds it  *)
(* to the nearest binary64 number, the model does not, except where the    *)
(* rounding ends at infinity or at zero.                                   *)
(***************************************************************************)
ValueError == [ok |-> FALSE, kind |-> "", neg |-> FALSE, m |-> <<>>, e |-> 0]

Finite(neg, m, e) == [ok |-> TRUE, kind |-> "finite", neg |-> neg, m |-> m, e |-> e]

Infinity(neg) == [ok |-> TRUE, kind |-> "inf", neg |-> neg, m |-> <<>>, e |-> 0]

NaN == [ok |-> TRUE, kind |-> "nan", neg |-> FALSE, m |-> <<>>, e |-> 0]

\* 0.0
Zero == Finite(FALSE, <<>>, 0)

\* A digit sequence without the zeros at its end.
DropTrailingZeros(s) ==
    LET nz == {i \in 1..Len(s) : s[i] # "0"}
    IN  IF nz = {} THEN <<>>
        ELSE SubSeq(s, 1, CHOOSE i \in nz : \A j \in nz : j <= i)

\* A digit sequence without the zeros at its start.
DropLeadingZeros(s) ==
    LET nz == {i \in 1..Len(s) : s[i] # "0"}
    IN  IF nz = {} THEN <<>>
        ELSE SubSeq(s, CHOOSE i \in nz : \A j \in nz : i <= j, Len(s))

\* The number of decimal digits of a natural number.
RECURSIVE NumDigits(_)
NumDigits(n) == IF n < 10 THEN 1 ELSE 1 + NumDigits(n \div 10)

\* The digits of 2^1024 - 2^970, halfway between the largest binary64
\* number and 2^1024: a decimal of at least this size rounds to infinity.
MaxRound ==
    <<"1", "7", "9", "7", "6", "9", "3", "1", "3", "4", "8", "6", "2", "3",
      "1", "5", "8", "0", "7", "9", "3", "7", "2", "8", "9", "7", "1", "4",
      "0", "5", "3", "0", "3", "4", "1", "5", "0", "7", "9", "9", "3", "4",
      "1", "3", "2", "7", "1", "0", "0", "3", "7", "8", "2", "6", "9", "3",
      "6", "1", "7", "3", "7", "7", "8", "9", "8", "0", "4", "4", "4", "9",
      "6", "8", "2", "9", "2", "7", "6", "4", "7", "5", "0", "9", "4", "6",
      "6", "4", "9", "0", "1", "7", "9", "7", "7", "5", "8", "7", "2", "0",
      "7", "0", "9", "6", "3", "3", "0", "2", "8", "6", "4", "1", "6", "6",
      "9", "2", "8", "8", "7", "9", "1", "0", "9", "4", "6", "5", "5", "5",
      "5", "4", "7", "8", "5", "1", "9", "4", "0", "4", "0", "2", "6", "3",
      "0", "6", "5", "7", "4", "8", "8", "6", "7", "1", "5", "0", "5", "8",
      "2", "0", "6", "8", "1", "9", "0", "8", "9", "0", "2", "0", "0", "0",
      "7", "0", "8", "3", "8", "3", "6", "7", "6", "2", "7", "3", "8", "5",
      "4", "8", "4", "5", "8", "1", "7", "7", "1", "1", "5", "3", "1", "7",
      "6", "4", "4", "7", "5", "7", "3", "0", "2", "7", "0", "0", "6", "9",
      "8", "5", "5", "5", "7", "1", "3", "6", "6", "9", "5", "9", "6", "2",
      "2", "8", "4", "2", "9", "1", "4", "8", "1", "9", "8", "6", "0", "8",
      "3", "4", "9", "3", "6", "4", "7", "5", "2", "9", "2", "7", "1", "9",
      "0", "7", "4", "1", "6", "8", "4", "4", "4", "3", "6", "5", "5", "1",
      "0", "7", "0", "4", "3", "4", "2", "7", "1", "1", "5", "5", "9", "6",
      "9", "9", "5", "0", "8", "0", "9", "3", "0", "4", "2", "8", "8", "0",
      "1", "7", "7", "9", "0", "4", "1", "7", "4", "4", "9", "7", "7", "9",
      "2">>

\* The digits of 5^1075, those of 2^-1075 = 5^1075 * 10^-1075, half the
\* smallest positive binary64 number: a decimal of at most this size
\* rounds to zero.
MinRound ==
    <<"2", "4", "7", "0", "3", "2", "8", "2", "2", "9", "2", "0", "6", "2",
      "3", "2", "7", "2", "0", "8", "8", "2", "8", "4", "3", "9", "6", "4",
      "3", "4", "1", "1", "0", "6", "8", "6", "1", "8", "2", "5", "2", "9",
      "9", "0", "1", "3", "0", "7", "1", "6", "2", "3", "8", "2", "2", "1",
      "2", "7", "9", "2", "8", "4", "1", "2", "5", "0", "3", "3", "7", "7",
      "5", "3", "6", "3", "5", "1", "0", "4", "3", "7", "5", "9", "3", "2",
      "6", "4", "9", "9", "1", "8", "1", "8", "0", "8", "1", "7", "9", "9",
      "6", "1", "8", "9", "8", "9", "8", "2", "8", "2", "3", "4", "7", "7",
      "2", "2", "8", "5", "8", "8", "6", "5", "4", "6", "3", "3", "2", "8",
      "3", "5", "5", "1", "7", "7", "9", "6", "9", "8", "9", "8", "1", "9",
      "9", "3", "8", "7", "3", "9", "8", "0", "0", "5", "3", "9", "0", "9",
      "3", "9", "0", "6", "3", "1", "5", "0", "3", "5", "6", "5", "9", "5",
      "1", "5", "5", "7", "0", "2", "2", "6", "3", "9", "2", "2", "9", "0",
      "8", "5", "8", "3", "9", "2", "4", "4", "9", "1", "0", "5", "1", "8",
      "4", "4", "3", "5", "9", "3", "1", "8", "0", "2", "8", "4", "9", "9",
      "3", "6", "5", "3", "6", "1", "5", "2", "5", "0", "0", "3", "1", "9",
      "3", "7", "0", "4", "5", "7", "6", "7", "8", "2", "4", "9", "2", "1",
      "9", "3", "6", "5", "6", "2", "3", "6", "6", "9", "8", "6", "3", "6",
      "5", "8", "4", "8", "0", "7", "5", "7", "0", "0", "1", "5", "8", "5",
      "7", "6", "9", "2", "6", "9", "9", "0", "3", "7", "0", "6", "3", "1",
      "1", "9", "2", "8", "2", "7", "9", "5", "5", "8", "5", "5", "1", "3",
      "3", "2", "9", "2", "7", "8", "3", "4", "3", "3", "8", "4", "0", "9",
      "3", "5", "1", "9", "7", "8", "0", "1", "5", "5", "3", "1", "2", "4",
      "6", "5", "9", "7", "2", "6", "3", "5", "7", "9", "5", "7", "4", "6",
      "2", "2", "7", "6", "6", "4", "6", "5", "2", "7", "2", "8", "2", "7",
      "2", "2", "0", "0", "5", "6", "3", "7", "4", "0", "0", "6", "4", "8",
      "5", "4", "9", "9", "9", "7", "7", "0", "9", "6", "5", "9", "9", "4",
      "7", "0", "4", "5", "4", "0", "2", "0", "8", "2", "8", "1", "6", "6",
      "2", "2", "6", "2", "3", "7", "8", "5", "7", "3", "9", "3", "4", "5",
      "0", "7", "3", "6", "3", "3", "9", "0", "0", "7", "9", "6", "7", "7",
      "6", "1", "9", "3", "0", "5", "7", "7", "5", "0", "6", "7", "4", "0",
      "1", "7", "6", "3", "2", "4", "6", "7", "3", "6", "0", "0", "9", "6",
      "8", "9", "5", "1", "3", "4", "0", "5", "3", "5", "5", "3", "7", "4",
      "5", "8", "5", "1", "6", "6", "6", "1", "1", "3", "4", "2", "2", "3",
      "7", "6", "6", "6", "7", "8", "6", "0", "4", "1", "6", "2", "1", "5",
      "9", "6", "8", "0", "4", "6", "1", "9", "1", "4", "4", "6", "7", "2",
      "9", "1", "8", "4", "0", "3", "0", "0", "5", "3", "0", "0", "5", "7",
      "5", "3", "0", "8", "4", "9", "0", "4", "8", "7", "6", "5", "3", "9",
      "1", "7", "1", "1", "3", "8", "6", "5", "9", "1", "6", "4", "6", "2",
      "3", "9", "5", "2", "4", "9", "1", "2", "6", "2", "3", "6", "5", "3",
      "8", "8", "1", "8", "7", "9", "6", "3", "6", "2", "3", "9", "3", "7",
      "3", "2", "8", "0", "4", "2", "3", "8", "9", "1", "0", "1", "8", "6",
      "7", "2", "3", "4", "8", "4", "9", "7", "6", "6", "8", "2", "3", "5",
      "0", "8", "9", "8", "6", "3", "3", "8", "8", "5", "8", "7", "9", "2",
      "5", "6", "2", "8", "3", "0", "2", "7", "5", "5", "9", "9", "5", "6",
      "5", "7", "5", "2", "4", "4", "5", "5", "5", "0", "7", "2", "5", "5",
      "1", "8", "9", "3", "1", "3", "6", "9", "0", "8", "3", "6", "2", "5",
      "4", "7", "7", "9", "1", "8", "6", "9", "4", "8", "6", "6", "7", "9",
      "9", "4", "9", "6", "8", "3", "2", "4", "0", "4", "9", "7", "0", "5",
      "8", "2", "1", "0", "2", "8", "5", "1", "3", "1", "8", "5", "4", "5",
      "1", "3", "9", "6", "2", "1", "3", "8", "3", "7", "7", "2", "2", "8",
      "2", "6", "1", "4", "5", "4", "3", "7", "6", "9", "3", "4", "1", "2",
      "5", "3", "2", "0", "9", "8", "5", "9", "1", "3", "2", "7", "6", "6",
      "7", "2", "3", "6", "3", "2", "8", "1", "2", "5">>

\* Order of two digit sequences read as d.ddd..., -1, 0 or 1.
CmpDigits(a, b) ==
    LET at(s, i) == IF i <= Len(s) THEN DigitVal(s[i]) ELSE 0
        n    == IF Len(a) >= Len(b) THEN Len(a) ELSE Len(b)
        diff == {i \in 1..n : at(a, i) # at(b, i)}
    IN  IF diff = {} THEN 0
        ELSE LET i == CHOOSE d \in diff : \A g \in diff : d <= g
             IN  IF at(a, i) < at(b, i) THEN -1 ELSE 1

\* The finite decimal m * 10^e (m without leading or trailing zeros) as
\* float() returns it; huge says that e stands for an exponent beyond every
\* binary64 number, of the sign of e.
RoundDecimal(neg, m, e, huge) ==
    LET adj == Len(m) + e - 1
    IN  IF m = <<>> THEN Finite(neg, <<>>, 0)
        ELSE IF huge THEN (IF e > 0 THEN Infinity(neg) ELSE Finite(neg, <<>>, 0))
        ELSE IF adj > 308 \/ (adj = 308 /\ CmpDigits(m, MaxRound) >= 0)
             THEN Infinity(neg)
        ELSE IF adj < -324 \/ (adj = -324 /\ CmpDigits(m, MinRound) <= 0)
             THEN Finite(neg, <<>>, 0)
        ELSE Finite(neg, m, e)

\* The characters of a text as float() reads them: a decimal digit as its
\* ASCII digit, a letter of inf, infinity, nan or the exponent mark in
\* lower case.
FloatChar(c) ==
    IF c \in Digits THEN AsciiDigits[DigitVal(c) + 1]
    ELSE CASE c = "I" -> "i" [] c = "N" -> "n" [] c = "F" -> "f"
           [] c = "T" -> "t" [] c = "Y" -> "y" [] c = "A" -> "a"
           [] c = "E" -> "e" [] OTHER -> c

\* The number after the sign: u is digits with at most one point, then an
\* optional exponent.  The exponent is weighed against the place of the
\* first and the last significant digit.  An exponent of more digits than
\* the length of the mantissa plus 400 has is larger than that length plus
\* 400, so no mantissa of this length brings the number back among the
\* binary64 numbers (huge); a shorter exponent is read as a number.
ParseDecimal(neg, u) ==
    LET dig  == {AsciiDigits[v] : v \in 1..10}
        es   == {i \in 1..Len(u) : u[i] = "e"}
        k    == IF es = {} THEN Len(u) + 1 ELSE CHOOSE i \in es : \A j \in es : i <= j
        mant == SubSeq(u, 1, k - 1)
        expo == SubSeq(u, k + 1, Len(u))
        esig == expo # <<>> /\ expo[1] \in {"+", "-"}
        edig == IF esig THEN Tail(expo) ELSE expo
        pts  == {i \in 1..Len(mant) : mant[i] = "."}
        wellFormed ==
            /\ \A i \in 1..Len(mant) : mant[i] \in dig \cup {"."}
            /\ Cardinality(pts) <= 1
            /\ \E i \in 1..Len(mant) : mant[i] \in dig
            /\ es # {} => /\ edig # <<>>
                          /\ \A i \in 1..Len(edig) : edig[i] \in dig
    IN  IF ~wellFormed THEN ValueError
        ELSE LET p    == IF pts = {} THEN Len(mant) + 1 ELSE CHOOSE i \in pts : TRUE
                 ip   == SubSeq(mant, 1, p - 1)
                 fp   == SubSeq(mant, p + 1, Len(mant))
                 all  == DropLeadingZeros(ip \o fp)
                 m    == DropTrailingZeros(all)
                 ed   == DropLeadingZeros(edig)
                 huge == Len(ed) > NumDigits(Len(mant) + 400)
                 ev   == IF huge THEN 1 ELSE NatOf(ed)
                 ex   == IF esig /\ expo[1] = "-" THEN 0 - ev ELSE ev
             IN  RoundDecimal(neg, m,
                              IF huge THEN ex ELSE ex - Len(fp) + (Len(all) - Len(m)),
                              huge)

\* float(text)
PyFloat(text) ==
    LET keep == {i \in 1..Len(text) : text[i] \notin FloatWS}
        t == IF keep = {} THEN <<>>
             ELSE SubSeq(text, CHOOSE i \in keep : \A j \in keep : i <= j,
                               CHOOSE i \in keep : \A j \in keep : j <= i)
        a == [i \in 1..Len(t) |-> FloatChar(t[i])]
        dig == {AsciiDigits[v] : v \in 1..10}
        underscoresOk ==
            \A i \in 1..Len(a) :
                a[i] = "_" => /\ 1 < i /\ i < Len(a)
                              /\ a[i - 1] \in dig /\ a[i + 1] \in dig
        b == SelectSeq(a, LAMBDA c : c # "_")
        signed == b # <<>> /\ b[1] \in {"+", "-"}
        neg == signed /\ b[1] = "-"
        u   == IF signed THEN Tail(b) ELSE b
    IN  IF ~underscoresOk THEN ValueError
        ELSE IF u \in {<<"i", "n", "f">>,
                       <<"i", "n", "f", "i", "n", "i", "t", "y">>}
             THEN Infinity(neg)
        ELSE IF u = <<"n", "a", "n">> THEN NaN
        ELSE ParseDecimal(neg, u)

\* float(x) if x else 0.0
FloatOrZero(x) == IF x = <<>> THEN Zero ELSE PyFloat(x)

(***************************************************************************)
(* Page markup.  A row of the items table is                               *)
(*   [id, txtTit, RCod, Rqtd, RUN, RvlUnit, valor]                         *)
(* where id is the text of the tr's id attribute (empty when it has none)  *)
(* and every other field is an optional span text.  A page fragment is     *)
(*   [tabResult |-> optional sequence of rows,                             *)
(*    infos     |-> optional (optional text of li.ui-li-static)]           *)
(***************************************************************************)

\* The 'N/A' marker of a missing name or code.
NA == <<"N", "/", "A">>

\* The '0.0' default of a missing total.
ZeroText == <<"0", ".", "0">>

ItemPrefix == <<"I", "t", "e", "m">>

\* span.text.strip() if span else default
SpanText(span, default) == IF span = <<>> THEN default ELSE Strip(span[1])

\* The dict built for one row (main.py lines 180-198), before float().
ItemTexts(row) ==
    LET codigo_bruto == SpanText(row.RCod, <<>>)
        match        == FirstDigitRun(DropNewlines(codigo_bruto))
        qtd_bruto    == SpanText(row.Rqtd, <<>>)
        un_bruto     == SpanText(row.RUN, <<>>)
        vl_bruto     == SpanText(row.RvlUnit, <<>>)
    IN  [nome     |-> SpanText(row.txtTit, NA),
         codigo   |-> IF match # <<>> THEN match[1] ELSE NA,
         qtd      |-> Strip(CommaToPoint(SplitLast(qtd_bruto))),
         unidade  |-> Strip(SplitLast(un_bruto)),
         vl_unit  |-> Strip(CommaToPoint(SplitLast(vl_bruto))),
         vl_total |-> IF row.valor = <<>> THEN ZeroText
                      ELSE CommaToPoint(Strip(row.valor[1]))]

\* The record appended to lista_de_itens for one row.
ItemOf(row) ==
    LET t == ItemTexts(row)
    IN  [produto        |-> t.nome,
         codigo         |-> t.codigo,
         quantidade     |-> FloatOrZero(t.qtd),
         unidade        |-> t.unidade,
         valor_unitario |-> FloatOrZero(t.vl_unit),
         valor_total    |-> FloatOrZero(t.vl_total)]

\* float() raised while the row's record was built.
ItemRaises(row) ==
    LET it == ItemOf(row)
    IN  ~it.quantidade.ok \/ ~it.valor_unitario.ok \/ ~it.valor_total.ok

\* Mutant of ItemRows: the matching rows, last one first.
ItemRowsInvertidas(rows) ==
    LET sel == SelectSeq(rows, LAMBDA r : StartsWith(r.id, ItemPrefix))
    IN  [i \in 1..Len(sel) |-> sel[Len(sel) + 1 - i]]

\* soup.find_all('tr', id=lambda x: x and x.startswith('Item')), in document order.
ItemRows(rows) == SelectSeq(rows, LAMBDA r : StartsWith(r.id, ItemPrefix))

\* extrair_e_limpar_itens: [exc, df]; exc when float() raised, df the optional
\* DataFrame (None when no row matches), item records in document order.
extrair_e_limpar_itens(rows) ==
    LET itens_rows == ItemRows(rows)
    IN  IF itens_rows = <<>> THEN [exc |-> FALSE, df |-> <<>>]
        ELSE IF \E i \in 1..Len(itens_rows) : ItemRaises(itens_rows[i])
             THEN [exc |-> TRUE, df |-> <<>>]
             ELSE [exc |-> FALSE,
                   df  |-> <<[i \in 1..Len(itens_rows) |-> ItemOf(itens_rows[i])]>>]

(***************************************************************************)
(* Metadata: the two regular expressions and strptime.                     *)
(***************************************************************************)
NumeroLabel == <<"N", "ú", "m", "e", "r", "o", ":">>

EmissaoLabel == <<"E", "m", "i", "s", "s", "ã", "o", ":">>

\* re.search(r"Número:\s*(\d+)", s): group 1 of the leftmost match, optional.
SearchNumero(s) ==
    LET n    == Len(NumeroLabel)
        at(i) == /\ SubSeq(s, i, i + n - 1) = NumeroLabel
                 /\ DigitRun(s, SkipWS(s, i + n)) # <<>>
        hits == {i \in 1..Len(s) : i + n - 1 <= Len(s) /\ at(i)}
    IN  IF hits = {} THEN <<>>
        ELSE LET i == CHOOSE h \in hits : \A g \in hits : h <= g
             IN  <<DigitRun(s, SkipWS(s, i + n))>>

\* \d{2}/\d{2}/\d{4}\s\d{2}:\d{2}:\d{2} at position j of s.
DateShapeAt(s, j) ==
    /\ j + 18 <= Len(s)
    /\ \A k \in {0, 1, 3, 4, 6, 7, 8, 9, 11, 12, 14, 15, 17, 18} : s[j + k] \in Digits
    /\ s[j + 2] = "/" /\ s[j + 5] = "/"
    /\ s[j + 10] \in WS
    /\ s[j + 13] = ":" /\ s[j + 16] = ":"

\* re.search(r"Emissão:\s*(\d{2}/\d{2}/\d{4}\s\d{2}:\d{2}:\d{2})", s)
SearchEmissao(s) ==
    LET n    == Len(EmissaoLabel)
        at(i) == /\ SubSeq(s, i, i + n - 1) = EmissaoLabel
                 /\ DateShapeAt(s, SkipWS(s, i + n))
        hits == {i \in 1..Len(s) : i + n - 1 <= Len(s) /\ at(i)}
    IN  IF hits = {} THEN <<>>
        ELSE LET i == CHOOSE h \in hits : \A g \in hits : h <= g
                 j == SkipWS(s, i + n)
             IN  <<SubSeq(s, j, j + 18)>>

IsLeap(y) == y % 4 = 0 /\ (y % 100 # 0 \/ y % 400 = 0)

DaysIn(mo, y) ==
    IF mo = 2 THEN (IF IsLeap(y) THEN 29 ELSE 28)
    ELSE IF mo \in {4, 6, 9, 11} THEN 30 ELSE 31

\* datetime.strptime(t, '%d/%m/%Y %H:%M:%S') for a text of the shape above:
\* [ok |-> FALSE, ...] stands for the ValueError it raises.  strptime
\* matches the text against
\*   (3[0-1]|[1-2]\d|0[1-9])/(1[0-2]|0[1-9])/(\d\d\d\d)\s+
\*   (2[0-3]|[0-1]\d):([0-5]\d):(6[0-1]|[0-5]\d)
\* (its one-digit alternatives cannot match two digits), where a digit
\* spelled out is an ASCII digit and \d is any decimal digit, converts the
\* groups with int() and builds the datetime, which checks the ranges.
Strptime(t) ==
    LET ascii(i) == t[i] \in {AsciiDigits[v] : v \in 1..10}
        d  == NatOf(SubSeq(t, 1, 2))
        mo == NatOf(SubSeq(t, 4, 5))
        y  == NatOf(SubSeq(t, 7, 10))
        h  == NatOf(SubSeq(t, 12, 13))
        mi == NatOf(SubSeq(t, 15, 16))
        se == NatOf(SubSeq(t, 18, 19))
        matches == /\ ascii(1) /\ (ascii(2) \/ t[1] \in {"1", "2"})
                   /\ ascii(4) /\ ascii(5)
                   /\ ascii(12) /\ (ascii(13) \/ t[12] \in {"0", "1"})
                   /\ ascii(15)
                   /\ ascii(18) /\ (ascii(19) \/ t[18] # "6")
        valid == /\ matches
                 /\ mo \in 1..12 /\ y >= 1
                 /\ d >= 1 /\ d <= DaysIn(mo, y)
                 /\ h <= 23 /\ mi <= 59 /\ se <= 59
    IN  [ok |-> valid, year |-> y, month |-> mo, day |-> d,
         hour |-> h, minute |-> mi, second |-> se]

\* Mutant of extrair_dados_completos: the tests of infos_div,
\* infos_gerais_li and match_numero are missing, so a missing block, list
\* element or number raises AttributeError.
extrair_dados_sem_testes(page) ==
    LET itens == IF page.tabResult # <<>>
                 THEN extrair_e_limpar_itens(page.tabResult[1])
                 ELSE [exc |-> FALSE, df |-> <<>>]
        texto == IF page.infos # <<>> /\ page.infos[1] # <<>>
                 THEN <<Strip(page.infos[1][1])>> ELSE <<>>
        numero == IF texto = <<>> THEN <<>> ELSE SearchNumero(texto[1])
        mdata  == IF texto = <<>> THEN <<>> ELSE SearchEmissao(texto[1])
        dataRaises == mdata # <<>> /\ ~Strptime(mdata[1]).ok
    IN  IF itens.exc \/ numero = <<>> \/ dataRaises
        THEN [erro |-> IF itens.exc THEN "float"
                       ELSE IF numero = <<>> THEN "AttributeError"
                       ELSE "strptime",
              itens_df |-> <<>>, numero_nota |-> <<>>, data_emissao |-> <<>>]
        ELSE [erro |-> "", itens_df |-> itens.df, numero_nota |-> numero,
              data_emissao |-> IF mdata = <<>> THEN <<>> ELSE <<Strptime(mdata[1])>>]

\* extrair_dados_completos: [erro, itens_df, numero_nota, data_emissao]; erro
\* names the call that raised ("" when none did: float() of line 195-197 runs
\* before strptime of line 167), each other field is optional (None = <<>>).
extrair_dados_completos(page) ==
    LET itens == IF page.tabResult # <<>>
                 THEN extrair_e_limpar_itens(page.tabResult[1])
                 ELSE [exc |-> FALSE, df |-> <<>>]
        texto == IF page.infos # <<>> /\ page.infos[1] # <<>>
                 THEN <<Strip(page.infos[1][1])>> ELSE <<>>
        numero == IF texto = <<>> THEN <<>> ELSE SearchNumero(texto[1])
        mdata  == IF texto = <<>> THEN <<>> ELSE SearchEmissao(texto[1])
        dataRaises == mdata # <<>> /\ ~Strptime(mdata[1]).ok
    IN  IF itens.exc \/ dataRaises
        THEN [erro |-> IF itens.exc THEN "float" ELSE "strptime",
              itens_df |-> <<>>, numero_nota |-> <<>>, data_emissao |-> <<>>]
        ELSE [erro |-> "", itens_df |-> itens.df, numero_nota |-> numero,
              data_emissao |-> IF mdata = <<>> THEN <<>> ELSE <<Strptime(mdata[1])>>]

(***************************************************************************)
(* Inputs: the requests the endpoint is given and the pages the fetched    *)
(* urls render to.                                                         *)
(***************************************************************************)

\* Number of requests the model runs, concurrently or one after another.
NumReqs == 2

Reqs == 1..NumReqs

Urls == {"https://nfce.example/a", "https://nfce.example/b"}

Estabelecimentos == {"Mercado Central"}

\* os.getenv("SECRET_API_KEY")
SECRET_API_KEY == "s3cr3t"

\* The x-api-key header of a request: right or wrong.
ApiKeys == {SECRET_API_KEY, "guess"}

\* The header x-api-key absent or empty.
NoApiKey == ""

\* A url pydantic refuses for an HttpUrl: it has no scheme.
UrlsInvalidas == {"nfce.example/a"}

\* The texts of the pages below.
TxtItem1 ==
    <<"I", "t", "e", "m", "1">>

TxtItem2 ==
    <<"I", "t", "e", "m", "2">>

TxtTotal ==
    <<"T", "o", "t", "a", "l">>

TxtArroz ==
    <<" ", "A", "r", "r", "o", "z", " ", "5", "k", "g", " ">>

TxtCod ==
    <<"(", "C", "ó", "d", "i", "g", "o", ":", " ", "1", "2", "3", ")">>

TxtCodQuebrado ==
    <<"(", "C", "ó", "d", "i", "g", "o", ":", " ", "4", "5", "\n", "6", ")">>

TxtQtd ==
    <<"Q", "t", "d", "e", ".", ":", " ", "2", ",", "0", "0", "0">>

TxtQtdVazia ==
    <<"Q", "t", "d", "e", ".", ":", " ">>

TxtQtdRuim ==
    <<"Q", "t", "d", "e", ".", ":", " ", "d", "o", "i", "s">>

TxtUN ==
    <<"U", "N", ":", " ", "K", "G">>

TxtVlUnit ==
    <<"V", "l", ".", " ", "U", "n", "i", "t", ".", ":", " ", "1", "0", ",",
      "5", "0">>

TxtVlUnitRuim ==
    <<"V", "l", ".", " ", "U", "n", "i", "t", ".", ":", " ", "1", ".", "2",
      "3", "4", ",", "5", "6">>

TxtValor ==
    <<"2", "1", ",", "0", "0">>

TxtValorRuim ==
    <<"R", "$", " ", "2", "1", ",", "0", "0">>

TxtInfos ==
    <<"N", "ú", "m", "e", "r", "o", ":", " ", "4", "5", "6", "7", " ", "S",
      "é", "r", "i", "e", ":", " ", "1", " ", "E", "m", "i", "s", "s", "ã",
      "o", ":", " ", "1", "5", "/", "0", "3", "/", "2", "0", "2", "3", " ",
      "0", "9", ":", "0", "0", ":", "0", "0">>

TxtInfosDataRuim ==
    <<"N", "ú", "m", "e", "r", "o", ":", " ", "4", "5", "6", "7", " ", "E",
      "m", "i", "s", "s", "ã", "o", ":", " ", "1", "5", "/", "1", "3", "/",
      "2", "0", "2", "3", " ", "0", "9", ":", "0", "0", ":", "0", "0">>

TxtQtdDoisPontos ==
    <<"Q", "t", "d", "e", ".", ":", " ", "1", ":", " ", "3", ",", "5",
      "0", "0">>

TxtVlUnitDoisPontos ==
    <<"V", "l", ".", " ", "U", "n", "i", "t", ".", ":", " ", "R", "$",
      ":", " ", "4", ",", "2", "0">>

TxtInfosSemNumero ==
    <<"S", "é", "r", "i", "e", ":", " ", "1", " ", "E", "m", "i", "s",
      "s", "ã", "o", ":", " ", "1", "5", "/", "0", "3", "/", "2", "0",
      "2", "3", " ", "0", "9", ":", "0", "0", ":", "0", "0">>

TxtInfosSemEmissao ==
    <<"N", "ú", "m", "e", "r", "o", ":", " ", "4", "5", "6", "7", " ",
      "S", "é", "r", "i", "e", ":", " ", "1">>

TxtInfosSemRotulos ==
    <<"S", "é", "r", "i", "e", ":", " ", "1", " ", "E", "m", "i", "s",
      "s", "ã", "o", ":", " ", "1", "5", "/", "0", "3", "/", "2", "3">>

TxtInfosHora25 ==
    <<"N", "ú", "m", "e", "r", "o", ":", " ", "4", "5", "6", "7", " ",
      "E", "m", "i", "s", "s", "ã", "o", ":", " ", "1", "5", "/", "0",
      "3", "/", "2", "0", "2", "3", " ", "2", "5", ":", "0", "0", ":",
      "0", "0">>

TxtArrozTab ==
    <<"\t", "A", "r", "r", "o", "z", "U+00A0">>

TxtCodArabe ==
    <<"(", "C", "ó", "d", "i", "g", "o", ":", "U+2003", "U+0663", "U+0664",
      ")">>

TxtQtdNegativa ==
    <<"Q", "t", "d", "e", ".", ":", "\t", "-", "1", ",", "5">>

TxtVlUnitExpoente ==
    <<"V", "l", ".", " ", "U", "n", "i", "t", ".", ":", " ", "1", "e", "3">>

TxtValorNan ==
    <<"n", "a", "n">>

TxtQtdEnorme ==
    <<"Q", "t", "d", "e", ".", ":", " ", "1", "e", "3", "9">>

TxtInfosOutras ==
    <<"N", "ú", "m", "e", "r", "o", ":", "\t", "U+0664", "U+0665", " ", "E",
      "m", "i", "s", "s", "ã", "o", ":", "U+00A0", "1", "5", "/", "0", "3",
      "/", "2", "0", "2", "3", "\t", "0", "U+0669", ":", "0", "0", ":", "0",
      "0">>

Row(id, tit, cod, qtd, un, vl, valor) ==
    [id |-> id, txtTit |-> tit, RCod |-> cod, Rqtd |-> qtd, RUN |-> un,
     RvlUnit |-> vl, valor |-> valor]

RowArroz ==
    Row(TxtItem1, <<TxtArroz>>, <<TxtCod>>, <<TxtQtd>>, <<TxtUN>>,
        <<TxtVlUnit>>, <<TxtValor>>)

\* No name, unit, unit price or total span; a quantity span with its label only.
RowFeijao ==
    Row(TxtItem2, <<>>, <<TxtCodQuebrado>>, <<TxtQtdVazia>>, <<>>, <<>>, <<>>)

\* A row of the table that is not an item row.
RowTotal ==
    Row(TxtTotal, <<TxtArroz>>, <<>>, <<>>, <<>>, <<>>, <<TxtValor>>)

RowQtdRuim ==
    Row(TxtItem2, <<TxtArroz>>, <<TxtCod>>, <<TxtQtdRuim>>, <<TxtUN>>,
        <<TxtVlUnit>>, <<TxtValor>>)

RowVlRuim ==
    Row(TxtItem1, <<TxtArroz>>, <<TxtCod>>, <<TxtQtd>>, <<TxtUN>>,
        <<TxtVlUnitRuim>>, <<TxtValor>>)

RowTotalRuim ==
    Row(TxtItem1, <<TxtArroz>>, <<TxtCod>>, <<TxtQtd>>, <<TxtUN>>,
        <<TxtVlUnit>>, <<TxtValorRuim>>)

\* Two colons in the quantity and in the unit price.
RowDoisPontos ==
    Row(TxtItem1, <<TxtArroz>>, <<TxtCod>>, <<TxtQtdDoisPontos>>, <<TxtUN>>,
        <<TxtVlUnitDoisPontos>>, <<TxtValor>>)

\* A tab and a no-break space around the name, an em space and Arabic-Indic
\* digits in the code, a sign, an exponent and nan in the numbers.
RowOutrasFormas ==
    Row(TxtItem1, <<TxtArrozTab>>, <<TxtCodArabe>>, <<TxtQtdNegativa>>, <<TxtUN>>,
        <<TxtVlUnitExpoente>>, <<TxtValorNan>>)

\* A quantity float() converts and a REAL column cannot hold.
RowEnorme ==
    Row(TxtItem1, <<TxtArroz>>, <<TxtCod>>, <<TxtQtdEnorme>>, <<TxtUN>>,
        <<TxtVlUnit>>, <<TxtValor>>)

\* div#infos with its li.ui-li-static.
InfosBoas == <<<<TxtInfos>>>>

InfosDataRuim == <<<<TxtInfosDataRuim>>>>

InfosSemNumero == <<<<TxtInfosSemNumero>>>>

InfosSemEmissao == <<<<TxtInfosSemEmissao>>>>

\* Neither "Número:" nor a date of the shape the pattern asks for.
InfosSemRotulos == <<<<TxtInfosSemRotulos>>>>

InfosHora25 == <<<<TxtInfosHora25>>>>

\* Tabs, a no-break space and Arabic-Indic digits in the metadata.
InfosOutras == <<<<TxtInfosOutras>>>>

\* div#infos without a li.ui-li-static.
InfosSemLi == <<<<>>>>

Page(tab, infos) == [tabResult |-> tab, infos |-> infos]

PgArroz == Page(<<<<RowArroz>>>>, InfosBoas)

PgDois == Page(<<<<RowTotal, RowArroz, RowFeijao>>>>, <<>>)

PgSemTabela == Page(<<>>, <<>>)

PgSemItens == Page(<<<<RowTotal>>>>, InfosBoas)

PgQtdRuim == Page(<<<<RowArroz, RowQtdRuim>>>>, InfosBoas)

PgVlRuim == Page(<<<<RowVlRuim>>>>, InfosBoas)

PgTotalRuim == Page(<<<<RowTotalRuim>>>>, InfosBoas)

PgDataRuim == Page(<<<<RowArroz>>>>, InfosDataRuim)

PgSemLi == Page(<<<<RowArroz>>>>, InfosSemLi)

PgSemNumero == Page(<<<<RowArroz>>>>, InfosSemNumero)

PgSemEmissao == Page(<<<<RowArroz>>>>, InfosSemEmissao)

PgSemRotulos == Page(<<<<RowArroz>>>>, InfosSemRotulos)

PgHora25 == Page(<<<<RowArroz>>>>, InfosHora25)

PgDoisPontos == Page(<<<<RowDoisPontos>>>>, InfosBoas)

PgOutrasFormas == Page(<<<<RowOutrasFormas>>>>, InfosOutras)

PgEnorme == Page(<<<<RowEnorme>>>>, InfosBoas)

\* The pages a url can render to, by name: one item, two items, a table
\* without item rows, a quantity float() rejects.
Pages == {"arroz", "dois", "sem_itens", "qtd_ruim"}

\* More pages a url can render to: no table, other fields float() rejects,
\* a date that is no date, metadata missing in part or in whole, an hour
\* of 25, fields with two colons, other whitespace, digits and number
\* forms, and a quantity beyond the range of REAL.
MaisPaginas == {"sem_tabela", "vl_ruim", "total_ruim", "data_ruim", "sem_li",
                "sem_numero", "sem_emissao", "sem_rotulos", "hora_25",
                "dois_pontos", "outras_formas", "enorme"}

TodasAsPaginas == Pages \cup MaisPaginas

\* The outerHTML of div.ui-content of a page.
Html(p) ==
    CASE p = "arroz" -> PgArroz
      [] p = "dois" -> PgDois
      [] p = "sem_tabela" -> PgSemTabela
      [] p = "sem_itens" -> PgSemItens
      [] p = "qtd_ruim" -> PgQtdRuim
      [] p = "vl_ruim" -> PgVlRuim
      [] p = "total_ruim" -> PgTotalRuim
      [] p = "data_ruim" -> PgDataRuim
      [] p = "sem_li" -> PgSemLi
      [] p = "sem_numero" -> PgSemNumero
      [] p = "sem_emissao" -> PgSemEmissao
      [] p = "sem_rotulos" -> PgSemRotulos
      [] p = "hora_25" -> PgHora25
      [] p = "dois_pontos" -> PgDoisPontos
      [] p = "outras_formas" -> PgOutrasFormas
      [] p = "enorme" -> PgEnorme

\* What driver.get and find_element can do: raise, or reach a page.
FetchOutcomes == {"get", "find_element"} \cup Pages

\* What extrair_dados_completos returns for each page.
Extraido == [p \in TodasAsPaginas |-> extrair_dados_completos(Html(p))]

(***************************************************************************)
(* State.                                                                  *)
(***************************************************************************)
VARIABLES
    notas_processadas,  \* committed header rows (a set: url is UNIQUE or not)
    historico_precos,   \* committed item rows, in insertion order
    seq_id,             \* next value of the SERIAL id of notas_processadas
    pc,                 \* where each request is in processar_nota_fiscal
    request,            \* the NotaRequest of each request
    tx,                 \* its transaction: none, active, committed, rolledback
    pend_nota,          \* header row it inserted and has not committed
    pend_itens,         \* item rows it inserted and has not committed
    session,            \* its browser session: none, open, closed
    dados,              \* dados_extraidos, or the call of the fetch that raised
    nextval,            \* value its header INSERT drew from the id sequence
    nova_nota_id,       \* id returned by marcar_url_como_processada
    status,             \* HTTP status of its response, 0 while running
    resp,               \* body of its response (optional)
    calls,              \* how often it was given a connection, called
                        \* conn.begin, commit, rollback, url_ja_processada,
                        \* buscar_dados_da_url, and how often it opened and
                        \* quit a browser session and inserted an item row
    after               \* requests for its url that processar_nota_fiscal
                        \* had served to the end when it arrived

vars == <<notas_processadas, historico_precos, seq_id, pc, request, tx,
          pend_nota, pend_itens, session, dados, nextval, nova_nota_id,
          status, resp, calls, after>>

NoCalls == [connect |-> 0, begin |-> 0, commit |-> 0, rollback |-> 0,
            check |-> 0, fetch |-> 0, open |-> 0, quit |-> 0, rows |-> 0]

NoRequest == [url |-> "", nome_estabelecimento |-> "", key |-> ""]

\* dados before the fetch returned.
NoDados == [erro |-> "", itens_df |-> <<>>, numero_nota |-> <<>>,
            data_emissao |-> <<>>]

Init ==
    /\ notas_processadas = {}
    /\ historico_precos = <<>>
    /\ seq_id = 1
    /\ pc = [r \in Reqs |-> "idle"]
    /\ request = [r \in Reqs |-> NoRequest]
    /\ tx = [r \in Reqs |-> "none"]
    /\ pend_nota = [r \in Reqs |-> <<>>]
    /\ pend_itens = [r \in Reqs |-> <<>>]
    /\ session = [r \in Reqs |-> "none"]
    /\ dados = [r \in Reqs |-> NoDados]
    /\ nextval = [r \in Reqs |-> 0]
    /\ nova_nota_id = [r \in Reqs |-> 0]
    /\ status = [r \in Reqs |-> 0]
    /\ resp = [r \in Reqs |-> <<>>]
    /\ calls = [r \in Reqs |-> NoCalls]
    /\ after = [r \in Reqs |-> {}]

(***************************************************************************)
(* The database, as the code uses it.  Rows a transaction inserted are     *)
(* held in pend_nota and pend_itens until it commits (no other            *)
(* transaction reads them: READ COMMITTED) and are dropped when it rolls   *)
(* back.  An insert of a url that another open transaction has inserted    *)
(* waits for that transaction to end.                                      *)
(***************************************************************************)

\* Mutant of UniqueViolation: the url column is not declared UNIQUE.
UniqueViolationNever(url) == FALSE

\* url TEXT NOT NULL UNIQUE: the insert is rejected (IntegrityError).
UniqueViolation(url) == \E n \in notas_processadas : n.url = url

\* The insert of r waits on an uncommitted row with the same url.
Blocked(r) ==
    \E q \in Reqs \ {r} :
        pend_nota[q] # <<>> /\ pend_nota[q][1].url = request[r].url

\* Mutant of url_ja_processada: the query never finds a row.
url_nunca_processada(url) == FALSE

\* url_ja_processada
url_ja_processada(url) == \E n \in notas_processadas : n.url = url

\* The row marcar_url_como_processada inserts (data_processamento left out).
NotaRow(id, req, d) ==
    [id                   |-> id,
     url                  |-> req.url,
     nome_estabelecimento |-> req.nome_estabelecimento,
     numero_nota          |-> d.numero_nota,
     data_emissao_nota    |-> d.data_emissao]

\* A row of df after df['nota_id'] = nota_id (data_coleta left out).
\* NULL in a REAL column.
Null == [ok |-> TRUE, kind |-> "null", neg |-> FALSE, m |-> <<>>, e |-> 0]

\* The value to_sql writes for a float of the DataFrame: pandas takes nan
\* for a missing value and writes NULL.
SqlReal(v) == IF v.kind = "nan" THEN Null ELSE v

\* The REAL columns (lines 82-85) hold binary32 numbers.  psycopg2 sends a
\* float as its repr and PostgreSQL refuses what binary32 rounds to
\* infinity or to zero (out of range for type real).  The float sent is
\* the binary64 number float() returned, so the verdict is that of the
\* binary64 number nearest to the decimal read, the same for every decimal
\* with the same nearest number.

\* The digits of 2^128 - 2^103 - 2^74 and of 2^128 - 2^103 + 2^74: the
\* decimals from the first to the second are those float() rounds to
\* 2^128 - 2^103, halfway between the largest binary32 number and 2^128.
MaxRealLo ==
    <<"3", "4", "0", "2", "8", "2", "3", "5", "6", "7", "7", "9", "7", "3",
      "3", "6", "4", "2", "7", "4", "8", "0", "7", "3", "4", "6", "3", "9",
      "7", "9", "5", "6", "1", "7", "1", "3", "6", "6", "4">>

MaxRealHi ==
    <<"3", "4", "0", "2", "8", "2", "3", "5", "6", "7", "7", "9", "7", "3",
      "3", "6", "8", "0", "5", "2", "7", "0", "0", "5", "3", "2", "6", "9",
      "3", "6", "7", "2", "3", "4", "2", "3", "2", "3", "2">>

\* The digits of (2^53 + 1) * 5^203, those of 2^-150 + 2^-203: the decimals
\* up to it are those float() rounds to 2^-150, half the smallest positive
\* binary32 number, or below.
MinRoundReal ==
    <<"7", "0", "0", "6", "4", "9", "2", "3", "2", "1", "6", "2", "4", "0",
      "8", "6", "1", "3", "2", "4", "9", "5", "5", "5", "7", "6", "4", "9",
      "0", "9", "2", "2", "9", "4", "0", "4", "9", "4", "0", "9", "3", "1",
      "6", "4", "3", "1", "8", "9", "8", "1", "0", "8", "9", "3", "2", "5",
      "6", "6", "8", "6", "2", "5", "0", "9", "5", "9", "4", "8", "4", "7",
      "0", "5", "1", "0", "6", "8", "8", "7", "9", "8", "5", "6", "1", "4",
      "5", "5", "4", "5", "1", "9", "6", "2", "3", "3", "5", "3", "8", "0",
      "5", "8", "1", "4", "9", "3", "5", "2", "8", "9", "0", "7", "1", "4",
      "2", "0", "2", "1", "1", "9", "6", "2", "0", "8", "2", "3", "6", "9",
      "4", "3", "9", "0", "3", "1", "0", "2", "6", "5", "5", "8", "9", "5",
      "0", "5", "4", "3", "4", "0", "3", "6", "2", "5", "4", "8", "8", "2",
      "8", "1", "2", "5">>

\* Whether PostgreSQL refuses a float for a REAL column, as the set of the
\* verdicts it can give.  A finite number beyond 2^128 - 2^103 or, when not
\* zero, of at most 2^-150 is refused.  2^128 - 2^103 itself is refused by
\* a server that rounds the binary64 number (ties to even, to infinity) and
\* taken by a server that rounds its repr 3.4028235677973366e+38, which is
\* below halfway: both verdicts.
ForaDoReal(v) ==
    IF v.kind # "finite" \/ v.m = <<>> THEN {FALSE}
    ELSE LET adj == Len(v.m) + v.e - 1
         IN  IF \/ adj > 38 \/ (adj = 38 /\ CmpDigits(v.m, MaxRealHi) > 0)
                \/ adj < -46 \/ (adj = -46 /\ CmpDigits(v.m, MinRoundReal) <= 0)
             THEN {TRUE}
             ELSE IF adj = 38 /\ CmpDigits(v.m, MaxRealLo) >= 0
                  THEN {TRUE, FALSE}
             ELSE {FALSE}

\* Whether the INSERT of to_sql raises DataError for the item: the verdicts
\* it can give.
ItemForaDoReal(item) ==
    {a \/ b \/ c : a \in ForaDoReal(item.quantidade),
                   b \in ForaDoReal(item.valor_unitario),
                   c \in ForaDoReal(item.valor_total)}

ItemRow(item, nota_id) ==
    [nota_id        |-> nota_id,
     produto        |-> item.produto,
     codigo         |-> item.codigo,
     quantidade     |-> SqlReal(item.quantidade),
     unidade        |-> item.unidade,
     valor_unitario |-> SqlReal(item.valor_unitario),
     valor_total    |-> SqlReal(item.valor_total)]

\* df is None or df.empty
NoItems(df) == df = <<>> \/ Len(df[1]) = 0

\* The value salvar_dados_no_banco returns.
registros_salvos(df) == IF NoItems(df) THEN 0 ELSE Len(df[1])

(***************************************************************************)
(* The ends of a request.                                                  *)
(***************************************************************************)

\* The response leaves the endpoint: its status and its body, the dict of
\* line 290 or the detail of the HTTPException.
Respond(r, code, body) ==
    /\ status' = [status EXCEPT ![r] = code]
    /\ resp' = [resp EXCEPT ![r] = <<body>>]
    /\ pc' = [pc EXCEPT ![r] = "done"]

\* Mutant of Rollback: the rows the transaction inserted stay, as if each
\* statement had been committed on its own.
RollbackKeepsRows(r, cs) ==
    /\ notas_processadas' = notas_processadas \cup {pend_nota[r][i] : i \in DOMAIN pend_nota[r]}
    /\ historico_precos' = historico_precos \o pend_itens[r]
    /\ tx' = [tx EXCEPT ![r] = "rolledback"]
    /\ pend_nota' = [pend_nota EXCEPT ![r] = <<>>]
    /\ pend_itens' = [pend_itens EXCEPT ![r] = <<>>]
    /\ calls' = [calls EXCEPT ![r] = [cs EXCEPT !.rollback = @ + 1]]

\* transaction.rollback(): the rows the transaction inserted are dropped.
\* cs is the request's call record so far.
Rollback(r, cs) ==
    /\ UNCHANGED <<notas_processadas, historico_precos>>
    /\ tx' = [tx EXCEPT ![r] = "rolledback"]
    /\ pend_nota' = [pend_nota EXCEPT ![r] = <<>>]
    /\ pend_itens' = [pend_itens EXCEPT ![r] = <<>>]
    /\ calls' = [calls EXCEPT ![r] = [cs EXCEPT !.rollback = @ + 1]]

\* Mutant of ExceptHTTPException: re-raise without rollback.
ExceptHTTPExceptionNoRollback(r, code, detail, cs) ==
    /\ UNCHANGED <<notas_processadas, historico_precos, tx, pend_nota, pend_itens>>
    /\ calls' = [calls EXCEPT ![r] = cs]
    /\ status' = [status EXCEPT ![r] = code]
    /\ resp' = [resp EXCEPT ![r] = <<[detail |-> detail]>>]
    /\ pc' = [pc EXCEPT ![r] = "done"]

\* except HTTPException: rollback and re-raise; leaving the with block then
\* finds the transaction inactive and does nothing more.
ExceptHTTPException(r, code, detail, cs) ==
    /\ Rollback(r, cs)
    /\ Respond(r, code, [detail |-> detail])

\* except Exception as e: rollback and raise HTTPException(500); its detail
\* ends with the text of e, for which the name of e stands here.
ExceptException(r, e, cs) ==
    /\ Rollback(r, cs)
    /\ Respond(r, 500, [detail |-> e])

\* The step goes on inside the transaction, with call record cs.
GoOn(r, next, cs) ==
    /\ pc' = [pc EXCEPT ![r] = next]
    /\ calls' = [calls EXCEPT ![r] = cs]
    /\ UNCHANGED <<notas_processadas, historico_precos, tx, status, resp>>

(***************************************************************************)
(* The steps of a request.                                                 *)
(***************************************************************************)

\* Mutant of get_api_key: the comparison with the secret is missing.
get_api_key_sem_teste(api_key) == 0

\* get_api_key: the status it answers with, 0 when the key is right.
get_api_key(api_key) == IF api_key = SECRET_API_KEY THEN 0 ELSE 403

\* APIKeyHeader(name="x-api-key", auto_error=True), line 39: the statuses
\* it answers with when the header is absent or empty, 403 or, in the later
\* releases of FastAPI, 401.
API_KEY_HEADER == {401, 403}

\* url: HttpUrl of NotaRequest, line 235: pydantic takes the text.
HttpUrl(url) == url \notin UrlsInvalidas

\* A request arrives with a url from urls and a key from keys, and FastAPI
\* resolves the parameters of lines 242-244: the dependencies in the order
\* written, get_db_conn before get_api_key, and after them the body.  An
\* exception of engine.connect() is handled by nobody (500, text body); a
\* body pydantic refuses is answered after the dependencies passed.
\* Requests are numbered in the order they arrive.
ReceiveDe(r, urls, keys) ==
    /\ pc[r] = "idle"
    /\ \A q \in Reqs : q < r => pc[q] # "idle"
    /\ \E u \in urls, e \in Estabelecimentos, k \in keys, conn \in BOOLEAN :
          /\ request' = [request EXCEPT ![r] =
                            [url |-> u, nome_estabelecimento |-> e, key |-> k]]
          /\ after' = [after EXCEPT ![r] =
                          {q \in Reqs : /\ pc[q] = "done" /\ calls[q].begin = 1
                                        /\ request[q].url = u}]
          /\ calls' = [calls EXCEPT ![r].connect = IF conn THEN 1 ELSE 0]
          /\ IF ~conn
             THEN Respond(r, 500, [text |-> "Internal Server Error"])
             ELSE IF k = NoApiKey
             THEN \E code \in API_KEY_HEADER :
                     Respond(r, code, [detail |-> "Not authenticated"])
             ELSE IF get_api_key(k) # 0
             THEN Respond(r, get_api_key(k),
                          [detail |-> "Could not validate credentials"])
             ELSE IF ~HttpUrl(u)
             THEN Respond(r, 422, [detail |-> "url"])
             ELSE /\ pc' = [pc EXCEPT ![r] = "begin"]
                  /\ UNCHANGED <<status, resp>>
    /\ UNCHANGED <<notas_processadas, historico_precos, seq_id, tx, pend_nota,
                   pend_itens, session, dados, nextval, nova_nota_id>>

\* The step over the urls of Urls and the keys of ApiKeys.
Receive(r) == ReceiveDe(r, Urls, ApiKeys)

\* Mutant of BeginTx: the with conn.begin() block is missing and the body
\* runs without a transaction.
BeginTxSemBegin(r) ==
    /\ pc[r] = "begin"
    /\ pc' = [pc EXCEPT ![r] = "check"]
    /\ UNCHANGED <<notas_processadas, historico_precos, seq_id, request, tx,
                   pend_nota, pend_itens, session, dados, nextval, nova_nota_id,
                   status, resp, calls, after>>

\* with conn.begin() as transaction
BeginTx(r) ==
    /\ pc[r] = "begin"
    /\ tx' = [tx EXCEPT ![r] = "active"]
    /\ calls' = [calls EXCEPT ![r].begin = @ + 1]
    /\ pc' = [pc EXCEPT ![r] = "check"]
    /\ UNCHANGED <<notas_processadas, historico_precos, seq_id, request,
                   pend_nota, pend_itens, session, dados, nextval, nova_nota_id,
                   status, resp, after>>

\* if url_ja_processada(url_str, conn): raise HTTPException(409)
CheckUrl(r) ==
    /\ pc[r] = "check"
    /\ LET cs == [calls[r] EXCEPT !.check = @ + 1]
       IN  IF url_ja_processada(request[r].url)
           THEN ExceptHTTPException(r, 409, "Esta URL de nota fiscal já foi processada.", cs)
           ELSE GoOn(r, "fetch", cs) /\ UNCHANGED <<pend_nota, pend_itens>>
    /\ UNCHANGED <<seq_id, request, session, dados, nextval, nova_nota_id, after>>

\* buscar_dados_da_url, lines 204-211: the driver is installed and started
\* outside the try block; if that raises there is no session and the
\* exception reaches except Exception of the endpoint.
StartDriver(r) ==
    /\ pc[r] = "fetch"
    /\ LET cs == [calls[r] EXCEPT !.fetch = @ + 1]
       IN  \/ /\ session' = [session EXCEPT ![r] = "open"]
              /\ GoOn(r, "scrape", [cs EXCEPT !.open = @ + 1])
              /\ UNCHANGED <<pend_nota, pend_itens>>
           \/ /\ ExceptException(r, "WebDriverException", cs)
              /\ UNCHANGED session
    /\ UNCHANGED <<seq_id, request, dados, nextval, nova_nota_id, after>>

\* buscar_dados_da_url, lines 213-225: driver.get, find_element and
\* extrair_dados_completos inside the try block; whatever raises is turned
\* into HTTPException(500), kept in dados.erro until finally has run.
ScrapeDe(r, outcomes) ==
    /\ pc[r] = "scrape"
    /\ \E o \in outcomes :
          dados' = [dados EXCEPT ![r] =
                       IF o \in TodasAsPaginas
                       THEN extrair_dados_completos(Html(o))
                       ELSE [NoDados EXCEPT !.erro = o]]
    /\ pc' = [pc EXCEPT ![r] = "quit"]
    /\ UNCHANGED <<notas_processadas, historico_precos, seq_id, request, tx,
                   pend_nota, pend_itens, session, nextval, nova_nota_id, status, resp,
                   calls, after>>

\* The step over the pages and the failures of FetchOutcomes.
Scrape(r) == ScrapeDe(r, FetchOutcomes)

\* Mutant of QuitDriver: driver.quit() at the end of the try block instead
\* of in finally.
QuitDriverOnSuccess(r) ==
    /\ pc[r] = "quit"
    /\ IF dados[r].erro # ""
       THEN /\ ExceptHTTPException(r, 500, "Falha no Selenium ao acessar a URL", calls[r])
            /\ UNCHANGED session
       ELSE /\ session' = [session EXCEPT ![r] = "closed"]
            /\ GoOn(r, "validate", [calls[r] EXCEPT !.quit = @ + 1])
            /\ UNCHANGED <<pend_nota, pend_itens>>
    /\ UNCHANGED <<seq_id, request, dados, nextval, nova_nota_id, after>>

\* Mutant of QuitDriver: the except clause logs the exception and does not
\* raise, so the function returns None.
QuitDriverSwallows(r) ==
    /\ pc[r] = "quit"
    /\ session' = [session EXCEPT ![r] = "closed"]
    /\ GoOn(r, "validate", [calls[r] EXCEPT !.quit = @ + 1])
    /\ UNCHANGED <<pend_nota, pend_itens>>
    /\ UNCHANGED <<seq_id, request, dados, nextval, nova_nota_id, after>>

\* buscar_dados_da_url, lines 226-228: finally driver.quit(), then the
\* function returns dados_completos or its HTTPException(500) goes on.  When
\* driver.quit() raises, its exception leaves the function in place of
\* either and reaches except Exception of the endpoint; the session is not
\* released and dados_extraidos is never assigned.
QuitDriver(r) ==
    /\ pc[r] = "quit"
    /\ \/ /\ session' = [session EXCEPT ![r] = "closed"]
          /\ LET cs == [calls[r] EXCEPT !.quit = @ + 1]
             IN  IF dados[r].erro # ""
                 THEN ExceptHTTPException(r, 500, "Falha no Selenium ao acessar a URL", cs)
                 ELSE GoOn(r, "validate", cs) /\ UNCHANGED <<pend_nota, pend_itens>>
          /\ UNCHANGED dados
       \/ /\ ExceptException(r, "WebDriverException", calls[r])
          /\ dados' = [dados EXCEPT ![r] = [NoDados EXCEPT !.erro = "quit"]]
          /\ UNCHANGED session
    /\ UNCHANGED <<seq_id, request, nextval, nova_nota_id, after>>

\* Mutant of Validate: the test of lines 267-272 is missing.
ValidateNoTest(r) ==
    /\ pc[r] = "validate"
    /\ GoOn(r, "header", calls[r])
    /\ UNCHANGED <<pend_nota, pend_itens>>
    /\ UNCHANGED <<seq_id, request, session, dados, nextval, nova_nota_id, after>>

\* lines 267-272: no items extracted is HTTPException(422).
Validate(r) ==
    /\ pc[r] = "validate"
    /\ IF NoItems(dados[r].itens_df)
       THEN ExceptHTTPException(r, 422, "Não foi possível extrair os itens da nota", calls[r])
       ELSE GoOn(r, "header", calls[r]) /\ UNCHANGED <<pend_nota, pend_itens>>
    /\ UNCHANGED <<seq_id, request, session, dados, nextval, nova_nota_id, after>>

\* marcar_url_como_processada, line 120: the INSERT starts.  It draws the
\* id of the row from the SERIAL sequence before the row meets the UNIQUE
\* index; the sequence advances whether or not the row is accepted.
Nextval(r) ==
    /\ pc[r] = "header"
    /\ seq_id' = seq_id + 1
    /\ nextval' = [nextval EXCEPT ![r] = seq_id]
    /\ GoOn(r, "insert", calls[r])
    /\ UNCHANGED <<pend_nota, pend_itens, request, session, dados,
                   nova_nota_id, after>>

\* Mutant of InsertHeader: the id is computed from the committed rows
\* (their number plus one) instead of coming from the SERIAL sequence.
InsertHeaderSemSequencia(r) ==
    /\ pc[r] = "insert"
    /\ ~Blocked(r)
    /\ IF UniqueViolation(request[r].url)
       THEN /\ ExceptException(r, "IntegrityError", calls[r])
            /\ UNCHANGED nova_nota_id
       ELSE LET id == Cardinality(notas_processadas) + 1
            IN  /\ pend_nota' = [pend_nota EXCEPT ![r] =
                                     <<NotaRow(id, request[r], dados[r])>>]
                /\ nova_nota_id' = [nova_nota_id EXCEPT ![r] = id]
                /\ GoOn(r, "items", calls[r])
                /\ UNCHANGED pend_itens
    /\ UNCHANGED <<seq_id, request, session, dados, nextval, after>>

\* marcar_url_como_processada: INSERT ... RETURNING id ends.  The row meets
\* the UNIQUE index once no other transaction holds an uncommitted row of
\* its url; the requests that run meanwhile draw the ids that follow.
InsertHeader(r) ==
    /\ pc[r] = "insert"
    /\ ~Blocked(r)
    /\ IF UniqueViolation(request[r].url)
       THEN /\ ExceptException(r, "IntegrityError", calls[r])
            /\ UNCHANGED nova_nota_id
       ELSE /\ pend_nota' = [pend_nota EXCEPT ![r] =
                                <<NotaRow(nextval[r], request[r], dados[r])>>]
            /\ nova_nota_id' = [nova_nota_id EXCEPT ![r] = nextval[r]]
            /\ GoOn(r, "items", calls[r])
            /\ UNCHANGED pend_itens
    /\ UNCHANGED <<seq_id, request, session, dados, nextval, after>>

\* Mutant of InsertItem: only the first row of df is written (df.head(1)).
InsertItemSoPrimeira(r) ==
    /\ pc[r] = "items"
    /\ LET df == dados[r].itens_df
       IN  IF NoItems(df)
           THEN GoOn(r, "commit", calls[r]) /\ UNCHANGED <<pend_nota, pend_itens>>
           ELSE \E fora \in ItemForaDoReal(df[1][1]) :
                IF fora
                THEN ExceptException(r, "DataError", calls[r])
                ELSE
                /\ pend_itens' = [pend_itens EXCEPT ![r] =
                                     Append(@, ItemRow(df[1][1], nova_nota_id[r]))]
                /\ GoOn(r, "commit", [calls[r] EXCEPT !.rows = @ + 1])
                /\ UNCHANGED pend_nota
    /\ UNCHANGED <<seq_id, request, session, dados, nextval, nova_nota_id, after>>

\* salvar_dados_no_banco: df.to_sql appends the rows of df, one at a time.
InsertItem(r) ==
    /\ pc[r] = "items"
    /\ LET df == dados[r].itens_df
           k  == Len(pend_itens[r]) + 1
       IN  IF NoItems(df)
           THEN GoOn(r, "commit", calls[r]) /\ UNCHANGED <<pend_nota, pend_itens>>
           ELSE \E fora \in ItemForaDoReal(df[1][k]) :
                IF fora
                THEN ExceptException(r, "DataError", calls[r])
                ELSE
                /\ pend_itens' = [pend_itens EXCEPT ![r] =
                                     Append(@, ItemRow(df[1][k], nova_nota_id[r]))]
                /\ GoOn(r, IF k = Len(df[1]) THEN "commit" ELSE "items",
                        [calls[r] EXCEPT !.rows = @ + 1])
                /\ UNCHANGED pend_nota
    /\ UNCHANGED <<seq_id, request, session, dados, nextval, nova_nota_id, after>>

\* A statement of the transaction fails in the database (connection lost,
\* server error): the existence query (url_ja_processada has been called,
\* line 257, and conn.execute raises inside it, line 106), the header
\* insert before or after it drew its id, or to_sql before its first row or
\* between two rows.
DbFault(r) ==
    /\ pc[r] \in {"check", "header", "insert", "items"}
    /\ ExceptException(r, "OperationalError",
                       IF pc[r] = "check"
                       THEN [calls[r] EXCEPT !.check = @ + 1]
                       ELSE calls[r])
    /\ UNCHANGED <<seq_id, request, session, dados, nextval, nova_nota_id, after>>

\* The body of the response of line 290.
Sucesso(r) ==
    [status          |-> "sucesso",
     itens           |-> registros_salvos(dados[r].itens_df),
     nota_id         |-> nova_nota_id[r],
     numero_nota     |-> dados[r].numero_nota,
     estabelecimento |-> request[r].nome_estabelecimento]

\* The set of the elements of a sequence.
Range(s) == {s[i] : i \in DOMAIN s}

\* return {...} leaves the with block: the transaction commits, its rows
\* become visible, and the 201 response is sent.
Commit(r) ==
    /\ pc[r] = "commit"
    /\ notas_processadas' = notas_processadas \cup Range(pend_nota[r])
    /\ historico_precos' = historico_precos \o pend_itens[r]
    /\ tx' = [tx EXCEPT ![r] = "committed"]
    /\ pend_nota' = [pend_nota EXCEPT ![r] = <<>>]
    /\ pend_itens' = [pend_itens EXCEPT ![r] = <<>>]
    /\ calls' = [calls EXCEPT ![r].commit = @ + 1]
    /\ Respond(r, 201, Sucesso(r))
    /\ UNCHANGED <<seq_id, request, session, dados, nextval, nova_nota_id, after>>

Next ==
    \E r \in Reqs :
        \/ Receive(r)
        \/ BeginTx(r)
        \/ CheckUrl(r)
        \/ StartDriver(r)
        \/ Scrape(r)
        \/ QuitDriver(r)
        \/ Validate(r)
        \/ Nextval(r)
        \/ InsertHeader(r)
        \/ InsertItem(r)
        \/ DbFault(r)
        \/ Commit(r)

Spec == Init /\ [][Next]_vars

\* No other request is inside the endpoint.
UmaPorVez(r) == \A q \in Reqs \ {r} : pc[q] \in {"idle", "done"}

\* The requests served one at a time, over every page above, by a database
\* whose statements fail only for what the request gives them (a url that
\* is stored, a number a REAL column refuses).
NextUmaPorVez ==
    \E r \in Reqs :
        /\ UmaPorVez(r)
        /\ \/ ReceiveDe(r, Urls \cup UrlsInvalidas, ApiKeys \cup {NoApiKey})
           \/ BeginTx(r)
           \/ CheckUrl(r)
           \/ StartDriver(r)
           \/ ScrapeDe(r, FetchOutcomes \cup MaisPaginas)
           \/ QuitDriver(r)
           \/ Validate(r)
           \/ Nextval(r)
           \/ InsertHeader(r)
           \/ InsertItem(r)
           \/ Commit(r)

SpecUmaPorVez == Init /\ [][NextUmaPorVez]_vars

TypeOK ==
    /\ pc \in [Reqs -> {"idle", "begin", "check", "fetch", "scrape", "quit",
                        "validate", "header", "insert", "items", "commit",
                        "done"}]
    /\ tx \in [Reqs -> {"none", "active", "committed", "rolledback"}]
    /\ session \in [Reqs -> {"none", "open", "closed"}]
    /\ status \in [Reqs -> {0, 201, 401, 403, 409, 422, 500}]
    /\ seq_id \in Nat

(***************************************************************************)
(* Properties.                                                             *)
(***************************************************************************)

\* The committed header rows with a url.
NotasDe(url) == {n \in notas_processadas : n.url = url}

\* The committed item rows tagged with a header id, in table order.
ItensDe(id) == SelectSeq(historico_precos, LAMBDA i : i.nota_id = id)

\* The header row request r inserts, and the item rows it inserts, given
\* what it extracted and the id it was given.
NotaEsperada(r) == NotaRow(nova_nota_id[r], request[r], dados[r])

ItensEsperados(r) ==
    IF dados[r].itens_df = <<>> THEN <<>>
    ELSE [k \in 1..Len(dados[r].itens_df[1]) |->
             ItemRow(dados[r].itens_df[1][k], nova_nota_id[r])]

\* Request r has put nothing into the committed tables.
NadaDe(r) ==
    /\ \A n \in notas_processadas : n.id # nova_nota_id[r]
    /\ ItensDe(nova_nota_id[r]) = <<>>

\* The committed tables hold the header of r and each of its item rows.
TudoDe(r) ==
    /\ {n \in notas_processadas : n.id = nova_nota_id[r]} = {NotaEsperada(r)}
    /\ ItensEsperados(r) # <<>>
    /\ ItensDe(nova_nota_id[r]) = ItensEsperados(r)

\* C1: atomicity.  In every committed state each request has either its
\* header row and all the item rows it extracted in the tables, or nothing;
\* every committed row belongs to such a request; and a request that ended
\* in an error (a fault during the item inserts included) has nothing.
Atomicidade ==
    /\ \A r \in Reqs : NadaDe(r) \/ TudoDe(r)
    /\ \A n \in notas_processadas : \E r \in Reqs : n.id = nova_nota_id[r]
    /\ \A k \in DOMAIN historico_precos :
          \E n \in notas_processadas : n.id = historico_precos[k].nota_id
    /\ \A r \in Reqs : pc[r] = "done" /\ status[r] # 201 => NadaDe(r)

\* C1 witness: a request failed after its header and one of its two item
\* rows were inserted, and has ended.
FalhaNoMeioDosItens ==
    \E r \in Reqs :
        /\ pc[r] = "done" /\ status[r] = 500
        /\ nova_nota_id[r] # 0
        /\ calls[r].rows = 1
        /\ Len(ItensEsperados(r)) = 2

\* Request a ran processar_nota_fiscal for the url of b and ended with 201
\* before b arrived.
EmSequencia(a, b) ==
    /\ a # b
    /\ a \in after[b]
    /\ status[a] = 201
    /\ request[a].url = request[b].url
    /\ pc[b] = "done" /\ calls[b].begin = 1

\* The existence query of r failed in the database: the request ended with
\* the 500 of except Exception without having called the fetch.
ConsultaFalhou(r) ==
    /\ status[r] = 500
    /\ resp[r] = <<[detail |-> "OperationalError"]>>
    /\ calls[r].fetch = 0

\* C2: idempotence.  When a request for a url ends with 201 and a second
\* request for the same url runs after it, the second called the existence
\* check and ends with 409 (with 500 if the database failed the query
\* itself), before any other step, and the tables hold one header row for
\* the url and the item rows of the first.
Idempotencia ==
    \A a, b \in Reqs :
        EmSequencia(a, b) =>
            /\ calls[b].check = 1
            /\ status[b] = 409 \/ ConsultaFalhou(b)
            /\ calls[b].fetch = 0 /\ calls[b].open = 0
            /\ nextval[b] = 0 /\ calls[b].rows = 0
            /\ NotasDe(request[a].url) = {NotaEsperada(a)}
            /\ ItensDe(nova_nota_id[a]) = ItensEsperados(a)
            /\ Len(ItensEsperados(a)) >= 1
            /\ NadaDe(b)

\* C2 witness: the second of two requests in sequence for one url has ended
\* with 409, the first having stored two item rows.
SegundaVez ==
    \E a, b \in Reqs :
        EmSequencia(a, b) /\ status[b] = 409 /\ Len(ItensDe(nova_nota_id[a])) = 2

\* C3 (as claimed): a request whose header insert the uniqueness constraint
\* rejected ends with 409.
CorridaViraConflito ==
    \A r \in Reqs :
        resp[r] = <<[detail |-> "IntegrityError"]>> => status[r] = 409

\* C4: under every interleaving the committed tables hold at most one header
\* row per url, and the item rows of its id are those of the one request
\* that committed it; a request that did not commit has no rows.
UmaNotaPorUrl ==
    /\ \A n1, n2 \in notas_processadas : n1.url = n2.url => n1 = n2
    /\ \A n \in notas_processadas :
          \E r \in Reqs : /\ status[r] = 201
                          /\ n = NotaEsperada(r)
                          /\ ItensDe(n.id) = ItensEsperados(r)
    /\ \A r \in Reqs : status[r] # 201 => ItensDe(nova_nota_id[r]) = <<>>

\* C4 witness: two requests for one url passed the existence check, one
\* committed and the insert of the other was rejected.
CorridaPerdida ==
    \E a, b \in Reqs :
        /\ a # b /\ request[a].url = request[b].url
        /\ status[a] = 201
        /\ resp[b] = <<[detail |-> "IntegrityError"]>>

\* C5: when the existence check runs and a header row with the url is
\* committed, the step ends the request, with 409 (with the 500 of except
\* Exception if the database failed the query itself), and changes neither
\* table; a request that ended with 409 never entered the fetch, never held
\* a session and never inserted a row.
DuplicadaSemEfeitos ==
    /\ [][\A r \in Reqs :
            (/\ pc[r] = "check"
             /\ calls'[r].check = calls[r].check + 1
             /\ \E n \in notas_processadas : n.url = request[r].url)
            => /\ pc'[r] = "done"
               /\ \/ status'[r] = 409
                  \/ /\ status'[r] = 500
                     /\ resp'[r] = <<[detail |-> "OperationalError"]>>
               /\ tx'[r] = "rolledback"
               /\ notas_processadas' = notas_processadas
               /\ historico_precos' = historico_precos
               /\ seq_id' = seq_id
               /\ session'[r] = "none" /\ calls'[r].fetch = 0]_vars
    /\ [](\A r \in Reqs :
            status[r] = 409 =>
                /\ calls[r].fetch = 0 /\ calls[r].open = 0
                /\ session[r] = "none"
                /\ nova_nota_id[r] = 0 /\ calls[r].rows = 0
                /\ tx[r] = "rolledback")

\* C5 witness: a request was refused with 409.
DuplicadaRecusada == \E r \in Reqs : pc[r] = "done" /\ status[r] = 409

\* The page has no items table, or a table with no row whose id starts
\* with "Item".
SemLinhasDeItem(page) ==
    \/ page.tabResult = <<>>
    \/ \A i \in DOMAIN page.tabResult[1] :
          ~StartsWith(page.tabResult[1][i].id, ItemPrefix)

\* The fetch of r returned and its dados hold no items.
ExtraiuNada(r) ==
    /\ calls[r].quit = 1
    /\ dados[r].erro = ""
    /\ dados[r].itens_df = <<>> \/ dados[r].itens_df = <<<<>>>>

\* C6: a page without item rows extracts to no items, and a request whose
\* extraction returned no items ends with 422 and persists nothing.
SemItensNadaPersistido ==
    /\ \A p \in TodasAsPaginas :
          LET d == Extraido[p]
          IN  SemLinhasDeItem(Html(p)) /\ d.erro = "" =>
                  d.itens_df = <<>> \/ d.itens_df = <<<<>>>>
    /\ \A r \in Reqs :
          ExtraiuNada(r) =>
              /\ pc[r] \in {"validate", "done"}
              /\ nova_nota_id[r] = 0 /\ calls[r].rows = 0
              /\ NadaDe(r)
              /\ pc[r] = "done" => status[r] = 422 /\ tx[r] = "rolledback"

\* C6 witness: one request ended with 422 on the page without a table (no
\* metadata either), another on the page whose table has no item row.
DoisTiposSemItens ==
    \E a, b \in Reqs :
        /\ status[a] = 422 /\ ExtraiuNada(a) /\ dados[a].numero_nota = <<>>
        /\ status[b] = 422 /\ ExtraiuNada(b) /\ dados[b].numero_nota # <<>>

\* C7: a request opens at most one transaction; while it runs inside it,
\* neither commit nor rollback has been called; when it has ended, exactly
\* one of them has: commit with 201, rollback with every error.
CommitOuRollback ==
    \A r \in Reqs :
        LET c == calls[r]
        IN  /\ c.begin <= 1
            /\ c.begin = 0 => tx[r] = "none" /\ c.commit + c.rollback = 0
            /\ pc[r] \notin {"idle", "begin", "done"} =>
                  tx[r] = "active" /\ c.commit + c.rollback = 0
            /\ pc[r] = "done" /\ c.begin = 1 =>
                  /\ c.commit + c.rollback = 1
                  /\ status[r] = 201 => c.commit = 1 /\ tx[r] = "committed"
                  /\ status[r] # 201 => c.rollback = 1 /\ tx[r] = "rolledback"

\* C7 witness: one request has committed and another has rolled back after
\* an exception that is no HTTPException.
CommitERollback ==
    \E a, b \in Reqs :
        /\ pc[a] = "done" /\ calls[a].commit = 1
        /\ pc[b] = "done" /\ calls[b].rollback = 1
        /\ resp[b] = <<[detail |-> "OperationalError"]>>

\* C8: buscar_dados_da_url opens at most one session and is never left
\* without driver.quit() having been called on the session it opened,
\* whether it returns, the page failed to load, the container was not found
\* or extraction raised: the session has been quit, or the call of
\* driver.quit() is itself what raised.
SessaoSempreLiberada ==
    \A r \in Reqs :
        /\ calls[r].open <= 1 /\ calls[r].quit <= calls[r].open
        /\ session[r] = "open" <=> calls[r].open = 1 /\ calls[r].quit = 0
        /\ session[r] = "closed" <=> calls[r].quit = 1
        /\ pc[r] \notin {"scrape", "quit"} /\ calls[r].open = 1 =>
              calls[r].quit = 1 \/ dados[r].erro = "quit"

\* C8 witness: a session was quit after extraction raised, another after
\* the container was not found.
SessoesLiberadasNaFalha ==
    \E a, b \in Reqs :
        /\ pc[a] = "done" /\ dados[a].erro = "float" /\ session[a] = "closed"
        /\ pc[b] = "done" /\ dados[b].erro = "find_element"
        /\ session[b] = "closed"

\* The fetch of r failed: the driver did not start, the page did not load,
\* the container was not found, or the driver could not be quit.
FetchFalhou(r) ==
    /\ pc[r] = "done"
    /\ calls[r].fetch = 1
    /\ calls[r].open = 0 \/ dados[r].erro \in {"get", "find_element", "quit"}

\* C9: a request whose fetch failed ends with 500 and has inserted and
\* committed nothing; unless another request committed the url, the tables
\* hold no header row for it.
FalhaDeFetch500 ==
    \A r \in Reqs :
        FetchFalhou(r) =>
            /\ status[r] = 500
            /\ nova_nota_id[r] = 0 /\ calls[r].rows = 0
            /\ tx[r] = "rolledback"
            /\ NadaDe(r)
            /\ (\A q \in Reqs \ {r} :
                    request[q].url = request[r].url => status[q] # 201)
               => NotasDe(request[r].url) = {}

\* C9 witness: one request ended after the driver failed to start, another
\* after the page failed to load.
DuasFalhasDeFetch ==
    \E a, b \in Reqs :
        /\ FetchFalhou(a) /\ calls[a].open = 0
        /\ FetchFalhou(b) /\ dados[b].erro = "get"

\* C10 (as claimed): numeric text that float() rejects is never the reason a
\* request fails: a request whose page has an item row ends with 201.
CampoRuimNaoFalha ==
    \A r \in Reqs :
        pc[r] = "done" /\ calls[r].quit = 1 /\ dados[r].erro = "float"
            => status[r] = 201

\* The flattened text of li.ui-li-static of a page, as an optional value.
TextoInfos(page) ==
    IF page.infos # <<>> /\ page.infos[1] # <<>>
    THEN <<Strip(page.infos[1][1])>> ELSE <<>>

\* The pages whose metadata text has an "Emissão:" token of the shape
\* DD/MM/YYYY HH:MM:SS that is no calendar date-time.
PaginasDataMalformada ==
    {p \in TodasAsPaginas :
        LET t == TextoInfos(Html(p))
        IN  /\ t # <<>>
            /\ SearchEmissao(t[1]) # <<>>
            /\ ~Strptime(SearchEmissao(t[1])[1]).ok}

\* The pages whose metadata text has no such token, or that have no text.
PaginasSemData ==
    {p \in TodasAsPaginas :
        LET t == TextoInfos(Html(p))
        IN  t = <<>> \/ SearchEmissao(t[1]) = <<>>}

\* The detail of the HTTPException(500) of buscar_dados_da_url.
FalhaNoSelenium == <<[detail |-> "Falha no Selenium ao acessar a URL"]>>

\* C11 (as claimed): a page without a date token extracts to an absent
\* data_emissao, and so does a page whose token is no calendar date-time:
\* a request that fetched one is not failed by the fetch and what it
\* extracted holds no date.
DataMalformadaAusente ==
    /\ \A p \in PaginasSemData :
          Extraido[p].erro # "strptime" /\ Extraido[p].data_emissao = <<>>
    /\ \E p \in PaginasSemData : Extraido[p].numero_nota # <<>>
    /\ \A r \in Reqs, p \in PaginasDataMalformada :
          pc[r] = "done" /\ calls[r].quit = 1 /\ dados[r] = Extraido[p] =>
              /\ resp[r] # FalhaNoSelenium
              /\ dados[r].erro = ""
              /\ dados[r].data_emissao = <<>>

\* No other request that has arrived asks for the url of r.
UrlSoDe(r) ==
    \A q \in Reqs \ {r} : pc[q] # "idle" => request[q].url # request[r].url

\* The status a request ends with when it runs alone, given its own key,
\* the faults of its own database statements and driver, and its own page.
ResultadoSozinha(r) ==
    IF calls[r].connect = 0 THEN 500
    ELSE IF get_api_key(request[r].key) # 0 THEN 403
    ELSE IF calls[r].check = 0 \/ calls[r].open = 0 THEN 500
    ELSE IF dados[r].erro # "" THEN 500
    ELSE IF NoItems(dados[r].itens_df) THEN 422
    ELSE IF calls[r].commit = 0 THEN 500
    ELSE 201

\* C12: a request whose url no other request asks for is never refused as a
\* duplicate, never rejected by the uniqueness constraint and never made to
\* wait; it has one transaction and at most one session of its own; it ends
\* as it would alone, with its header and items committed or nothing.  No
\* two requests are given the same header id, so every item row carries the
\* id of the one request that extracted it.
Independentes ==
    /\ \A r \in Reqs :
          UrlSoDe(r) /\ pc[r] # "idle" =>
              /\ status[r] # 409
              /\ resp[r] # <<[detail |-> "IntegrityError"]>>
              /\ pc[r] = "insert" => ~Blocked(r)
              /\ calls[r].begin <= 1 /\ calls[r].open <= 1
              /\ pc[r] = "done" =>
                    /\ status[r] = ResultadoSozinha(r)
                    /\ status[r] = 201 => TudoDe(r)
                    /\ status[r] # 201 => NadaDe(r)
    /\ \A a, b \in Reqs :
          a # b /\ nova_nota_id[a] # 0 => nova_nota_id[a] # nova_nota_id[b]
    /\ \A k \in DOMAIN historico_precos :
          \E r \in Reqs :
              /\ nova_nota_id[r] = historico_precos[k].nota_id
              /\ historico_precos[k] \in Range(ItensEsperados(r))
              /\ \A q \in Reqs \ {r} :
                    nova_nota_id[q] # historico_precos[k].nota_id

\* C12 witness: two requests for different urls ran at the same time (the
\* one that arrived later inserted its header first), and both ended with
\* 201.
DuasUrlsAoMesmoTempo ==
    \E a, b \in Reqs :
        /\ a < b
        /\ request[a].url # request[b].url
        /\ status[a] = 201 /\ status[b] = 201
        /\ nova_nota_id[b] < nova_nota_id[a]

\* C13: a request whose x-api-key is not the secret ends in the step that
\* receives it, with 403 (with 500 when no database connection could be
\* opened for it, get_db_conn being resolved before get_api_key): it has
\* begun no transaction, run no existence query, called no fetch, opened no
\* session and inserted nothing; and 401 or 403 is the answer to no request
\* with the right key.
ChaveErrada403 ==
    \A r \in Reqs :
        pc[r] # "idle" =>
            /\ request[r].key \notin {SECRET_API_KEY, NoApiKey} =>
                  /\ pc[r] = "done"
                  /\ calls[r].connect = 1 =>
                        /\ status[r] = 403
                        /\ resp[r] =
                              <<[detail |-> "Could not validate credentials"]>>
                  /\ calls[r].connect = 0 => status[r] = 500
                  /\ calls[r] = [NoCalls EXCEPT !.connect = calls[r].connect]
                  /\ tx[r] = "none" /\ session[r] = "none"
                  /\ dados[r] = NoDados
                  /\ nova_nota_id[r] = 0 /\ nextval[r] = 0
                  /\ pend_nota[r] = <<>> /\ pend_itens[r] = <<>>
                  /\ NadaDe(r)
            /\ status[r] \in {401, 403} => request[r].key # SECRET_API_KEY

\* C13 witness: a request with a wrong key, for a url stored before it
\* arrived, ended with 403.
ChaveErradaParaUrlGuardada ==
    \E a, r \in Reqs :
        /\ a \in after[r] /\ status[a] = 201
        /\ request[a].url = request[r].url
        /\ request[r].key # SECRET_API_KEY /\ status[r] = 403

\* The positions of the rows of a table whose id begins with "Item".
IndicesDeItem(rows) == {i \in DOMAIN rows : StartsWith(rows[i].id, ItemPrefix)}

\* The k-th smallest element of a set of numbers.
Kesimo(S, k) == CHOOSE i \in S : Cardinality({j \in S : j < i}) = k - 1

\* The records of the table rows of each page whose id begins with "Item",
\* in the order of the table.
ItensNaOrdemDaTabela ==
    [p \in TodasAsPaginas |->
        IF Html(p).tabResult = <<>> THEN <<>>
        ELSE LET rows == Html(p).tabResult[1]
                 S    == IndicesDeItem(rows)
             IN  [k \in 1..Cardinality(S) |-> ItemOf(rows[Kesimo(S, k)])]]

\* C14: a request that ended with 201 fetched a page with a table, and the
\* committed item rows with its header id are, position by position, the
\* records of the table rows whose id begins with "Item", in the order of
\* the table, each tagged with that id; the response reports their number.
ItensEmOrdem ==
    \A r \in Reqs :
        status[r] = 201 =>
            \E p \in TodasAsPaginas :
                /\ dados[r] = Extraido[p]
                /\ Html(p).tabResult # <<>>
                /\ LET esperados == ItensNaOrdemDaTabela[p]
                       got       == ItensDe(nova_nota_id[r])
                   IN  /\ Len(esperados) >= 1
                       /\ Len(got) = Len(esperados)
                       /\ \A k \in 1..Len(got) :
                             got[k] = ItemRow(esperados[k], nova_nota_id[r])
                       /\ resp[r][1].itens = Len(esperados)
                       /\ resp[r][1].nota_id = nova_nota_id[r]

\* C14 witness: a request stored the two item rows of the page whose table
\* begins with a row that is no item, in a table that holds the rows of
\* another request too.
DoisItensEmOrdem ==
    \E r \in Reqs :
        /\ status[r] = 201
        /\ dados[r] = Extraido["dois"]
        /\ Len(ItensDe(nova_nota_id[r])) = 2
        /\ ItensDe(nova_nota_id[r])[1].produto # NA
        /\ ItensDe(nova_nota_id[r])[2].produto = NA
        /\ Len(historico_precos) > 2

\* C15 (as claimed): the transaction is opened only after the existence
\* check passed and the fetch returned items: none is open while the fetch
\* runs, and a request that ends with 409 or 422 never began one.
TransacaoSoNoPasso3 ==
    \A r \in Reqs :
        /\ pc[r] \in {"fetch", "scrape", "quit"} => tx[r] = "none"
        /\ session[r] = "open" => tx[r] # "active"
        /\ status[r] \in {409, 422} => calls[r].begin = 0 /\ tx[r] = "none"
        /\ tx[r] = "active" =>
              /\ calls[r].check = 1 /\ calls[r].quit = 1
              /\ ~NoItems(dados[r].itens_df)

\* C15 (amended): the transaction of a request goes none -> active ->
\* committed or rolledback and no other way; it is opened once, before the
\* existence check, and is active through the check, the fetch (whenever a
\* session is open), the extraction and the inserts; a request that ends
\* with 409 or 422 began it and rolled it back.
TransacaoDesdeOInicio ==
    /\ [][\A r \in Reqs :
            tx'[r] # tx[r] =>
                \/ tx[r] = "none" /\ tx'[r] = "active" /\ pc[r] = "begin"
                \/ tx[r] = "active" /\ tx'[r] \in {"committed", "rolledback"}
                                    /\ pc'[r] = "done"]_vars
    /\ [](\A r \in Reqs :
            /\ pc[r] \in {"check", "fetch", "scrape", "quit", "validate",
                           "header", "insert", "items", "commit"} =>
                  tx[r] = "active" /\ calls[r].begin = 1
            /\ pc[r] \in {"idle", "begin"} => tx[r] = "none"
            /\ session[r] = "open" /\ pc[r] # "done" => tx[r] = "active"
            /\ status[r] \in {409, 422} =>
                  /\ calls[r].begin = 1 /\ calls[r].rollback = 1
                  /\ tx[r] = "rolledback"
            /\ tx[r] = "committed" => status[r] = 201)

\* C15 witness: one request is fetching with its transaction active, and
\* another has ended with 422 and rolled its transaction back.
FetchDentroDaTransacao ==
    \E a, b \in Reqs :
        /\ session[a] = "open" /\ tx[a] = "active"
        /\ status[b] = 422 /\ calls[b].begin = 1 /\ tx[b] = "rolledback"

\* C16: within a request the existence query, the fetch, the header insert,
\* the item inserts and the commit happen at most once each (one insert per
\* item) and in that order: the fetch only after the query found no row,
\* the extraction only inside the fetch, the header insert only after the
\* fetch returned items, each item insert after the header insert and
\* before the commit, and the commit only after the last item insert.
PipelineEmOrdem ==
    \A r \in Reqs :
        LET c  == calls[r]
            df == dados[r].itens_df
        IN  /\ c.check <= 1 /\ c.fetch <= c.check
            /\ c.open <= c.fetch /\ c.quit <= c.open
            /\ c.commit <= c.quit
            /\ c.fetch = 1 => status[r] # 409
            /\ pc[r] = "fetch" => c.check = 1 /\ c.fetch = 0
            /\ dados[r] # NoDados => c.open = 1
            /\ pc[r] \in {"header", "insert", "items", "commit"} =>
                  c.quit = 1 /\ dados[r].erro = "" /\ ~NoItems(df)
            /\ (\/ nova_nota_id[r] # 0
                \/ pend_nota[r] # <<>>
                \/ resp[r] = <<[detail |-> "IntegrityError"]>>) =>
                  c.quit = 1 /\ dados[r].erro = "" /\ ~NoItems(df)
            /\ pc[r] \in {"header", "insert"} =>
                  nova_nota_id[r] = 0 /\ c.rows = 0
            /\ c.rows > 0 => nova_nota_id[r] # 0
            /\ c.rows <= registros_salvos(df)
            /\ tx[r] = "active" =>
                  /\ Len(pend_itens[r]) = c.rows
                  /\ c.rows > 0 => pend_nota[r] # <<>>
            /\ pc[r] = "commit" \/ c.commit = 1 =>
                  c.rows = registros_salvos(df) /\ nova_nota_id[r] # 0
            /\ c.commit = 0 => NadaDe(r)

\* C16 witness: a request went through every step and committed two items.
TodosOsPassos ==
    \E r \in Reqs :
        /\ calls[r].check = 1 /\ calls[r].fetch = 1 /\ calls[r].quit = 1
        /\ calls[r].rows = 2 /\ calls[r].commit = 1
        /\ status[r] = 201

\* The pages with an item row, and no field float() or strptime rejects,
\* whose metadata block, list element, "Número:" token or "Emissão:" token
\* is missing.
PaginasMetadadosFaltando ==
    {p \in TodasAsPaginas :
        LET page == Html(p)
            t    == TextoInfos(page)
        IN  /\ page.tabResult # <<>>
            /\ IndicesDeItem(page.tabResult[1]) # {}
            /\ \A i \in IndicesDeItem(page.tabResult[1]) :
                  ~ItemRaises(page.tabResult[1][i])
            /\ p \notin PaginasDataMalformada
            /\ \/ t = <<>>
               \/ SearchNumero(t[1]) = <<>>
               \/ SearchEmissao(t[1]) = <<>>}

\* The receipt number and date of a page, read from its text.
NumeroDaPagina(p) ==
    IF TextoInfos(Html(p)) = <<>> THEN <<>>
    ELSE SearchNumero(TextoInfos(Html(p))[1])

DataDaPagina(p) ==
    LET t == TextoInfos(Html(p))
    IN  IF t = <<>> \/ SearchEmissao(t[1]) = <<>> THEN <<>>
        ELSE <<Strptime(SearchEmissao(t[1])[1])>>

\* C17: a request that fetched a page with item rows and missing metadata
\* ends with 201 unless a database statement failed; its header row and
\* every item row are committed; the header holds, and the response
\* returns, no value for what is missing and the value read for the rest.
MetadadosFaltandoNaoFalham ==
    \A r \in Reqs, p \in PaginasMetadadosFaltando :
        calls[r].quit = 1 /\ dados[r] = Extraido[p] =>
            /\ dados[r].erro = ""
            /\ dados[r].numero_nota = NumeroDaPagina(p)
            /\ dados[r].data_emissao = DataDaPagina(p)
            /\ dados[r].numero_nota = <<>> \/ dados[r].data_emissao = <<>>
            /\ pc[r] = "done" =>
                  /\ status[r] \in {201, 500}
                  /\ status[r] = 500 =>
                        resp[r] = <<[detail |-> "OperationalError"]>>
                  /\ status[r] = 201 =>
                        /\ TudoDe(r)
                        /\ \E n \in notas_processadas :
                              /\ n.id = nova_nota_id[r]
                              /\ n.numero_nota = NumeroDaPagina(p)
                              /\ n.data_emissao_nota = DataDaPagina(p)
                        /\ resp[r][1].numero_nota = NumeroDaPagina(p)
                        /\ Len(ItensDe(nova_nota_id[r])) =
                              Cardinality(IndicesDeItem(Html(p).tabResult[1]))

\* C17 witness: the pages without a block, a list element, a number or a
\* date are among those with missing metadata; one request ended with 201
\* and stored a number and no date, another a date and no number.
CadaMetadadoFaltando ==
    /\ {"dois", "sem_li", "sem_numero", "sem_emissao", "sem_rotulos"}
          \subseteq PaginasMetadadosFaltando
    /\ \E a, b \in Reqs :
          /\ status[a] = 201 /\ dados[a] = Extraido["sem_emissao"]
          /\ \E n \in notas_processadas :
                /\ n.id = nova_nota_id[a]
                /\ n.numero_nota = <<<<"4", "5", "6", "7">>>>
                /\ n.data_emissao_nota = <<>>
          /\ status[b] = 201 /\ dados[b] = Extraido["sem_numero"]
          /\ \E n \in notas_processadas :
                /\ n.id = nova_nota_id[b]
                /\ n.numero_nota = <<>>
                /\ n.data_emissao_nota # <<>>
                /\ n.data_emissao_nota[1].year = 2023
                /\ n.data_emissao_nota[1].month = 3

\* The text of a field after its first colon, the whole text if it has none.
AposPrimeiroDoisPontos(s) ==
    IF \A i \in 1..Len(s) : s[i] # ":" THEN s
    ELSE LET k == CHOOSE i \in 1..Len(s) :
                      s[i] = ":" /\ \A j \in 1..(i - 1) : s[j] # ":"
         IN  SubSeq(s, k + 1, Len(s))

\* The end of a field that holds no colon and is the whole text or comes
\* right after a colon.
AposUltimoDoisPontos(s) ==
    CHOOSE t \in {SubSeq(s, k + 1, Len(s)) : k \in 0..Len(s)} :
        /\ \A i \in 1..Len(t) : t[i] # ":"
        /\ Len(t) = Len(s) \/ s[Len(s) - Len(t)] = ":"

\* The number read from what is left of a span's text: decimal comma to
\* point, whitespace trimmed, 0.0 when nothing is left.
ValorDe(resto) == FloatOrZero(Strip(CommaToPoint(resto)))

\* The table rows of a page whose id begins with "Item", in table order.
LinhasDeItem(p) ==
    IF Html(p).tabResult = <<>> THEN <<>>
    ELSE LET rows == Html(p).tabResult[1]
             S    == IndicesDeItem(rows)
         IN  [k \in 1..Cardinality(S) |-> rows[Kesimo(S, k)]]

\* The extraction request r got is that of page p.
Extraiu(r, p) == calls[r].quit = 1 /\ dados[r] = Extraido[p]

\* C18 (as claimed): the quantity and the unit price of every extracted item
\* are the numbers read from the text after the FIRST colon of their spans
\* (0.0 when that text is no number).
ValorAposOPrimeiro ==
    \A r \in Reqs, p \in TodasAsPaginas :
        Extraiu(r, p) /\ dados[r].erro = "" /\ ~NoItems(dados[r].itens_df) =>
            \A k \in 1..Len(LinhasDeItem(p)) :
                LET row == LinhasDeItem(p)[k]
                    q   == ValorDe(AposPrimeiroDoisPontos(SpanText(row.Rqtd, <<>>)))
                    v   == ValorDe(AposPrimeiroDoisPontos(SpanText(row.RvlUnit, <<>>)))
                    it  == dados[r].itens_df[1][k]
                IN  /\ it.quantidade = IF q.ok THEN q ELSE Zero
                    /\ it.valor_unitario = IF v.ok THEN v ELSE Zero

\* The numbers of the item rows of each page: quantity (q) and unit price
\* (v) read from the text after the last colon of their spans, and the
\* total (t).
LidoAposOUltimo ==
    [p \in TodasAsPaginas |->
        [k \in 1..Len(LinhasDeItem(p)) |->
            LET row == LinhasDeItem(p)[k]
            IN  [q |-> ValorDe(AposUltimoDoisPontos(SpanText(row.Rqtd, <<>>))),
                 v |-> ValorDe(AposUltimoDoisPontos(SpanText(row.RvlUnit, <<>>))),
                 t |-> FloatOrZero(ItemTexts(row).vl_total)]]]

\* C18 (amended): the quantity and the unit price of every extracted item
\* are the numbers read from the text after the LAST colon of their spans;
\* when the extraction raised in float(), some item row has a quantity,
\* unit price or total that is no number read that way.  The spans
\* "Qtde.: 1: 3,500" and "Vl. Unit.: R$: 4,20" give 3.5 and 4.2.
ValorAposOUltimo ==
    /\ \A r \in Reqs, p \in TodasAsPaginas :
          Extraiu(r, p) =>
              LET lido == LidoAposOUltimo[p]
              IN  /\ dados[r].erro = "" /\ ~NoItems(dados[r].itens_df) =>
                        /\ Len(dados[r].itens_df[1]) = Len(lido)
                        /\ \A k \in 1..Len(lido) :
                              /\ lido[k].q.ok /\ lido[k].v.ok
                              /\ dados[r].itens_df[1][k].quantidade = lido[k].q
                              /\ dados[r].itens_df[1][k].valor_unitario = lido[k].v
                  /\ dados[r].erro = "float" =>
                        \E k \in 1..Len(lido) :
                            ~lido[k].q.ok \/ ~lido[k].v.ok \/ ~lido[k].t.ok
    /\ \A r \in Reqs :
          Extraiu(r, "dois_pontos") =>
              /\ dados[r].erro = ""
              /\ dados[r].itens_df[1][1].quantidade = Finite(FALSE, <<"3", "5">>, -1)
              /\ dados[r].itens_df[1][1].valor_unitario = Finite(FALSE, <<"4", "2">>, -1)

\* C18 witness: a request fetched the page whose quantity and unit price
\* have two colons, ended with 201 and stored 3.5 and 4.2.
DoisPontosDuasVezes ==
    \E r \in Reqs :
        /\ Extraiu(r, "dois_pontos") /\ status[r] = 201
        /\ Len(ItensDe(nova_nota_id[r])) = 1
        /\ ItensDe(nova_nota_id[r])[1].quantidade = Finite(FALSE, <<"3", "5">>, -1)
        /\ ItensDe(nova_nota_id[r])[1].valor_unitario = Finite(FALSE, <<"4", "2">>, -1)

\* C19: in every committed state of the two tables each item row carries
\* the id of exactly one header row of that state, header ids are unique,
\* and each header row has at least one item row.
ReferenciasInteiras ==
    /\ \A k \in DOMAIN historico_precos :
          Cardinality({n \in notas_processadas :
                          n.id = historico_precos[k].nota_id}) = 1
    /\ \A n \in notas_processadas : ItensDe(n.id) # <<>>
    /\ \A n \in notas_processadas : n.id \in 1..(seq_id - 1)

\* C19 witness: two header rows are committed, one with one item row and
\* one with two.
DuasNotasComItens ==
    \E n1, n2 \in notas_processadas :
        Len(ItensDe(n1.id)) = 1 /\ Len(ItensDe(n2.id)) = 2

\* Some request for the url of b, other than b, has ended with 201.
OutraTeveSucesso(b) ==
    \E a \in Reqs \ {b} :
        status[a] = 201 /\ request[a].url = request[b].url

\* C20: a request that ended with 422 or 500 has left no row in the
\* tables; every committed header row is that of a request that ended with
\* 201; a request is refused with 409 only when another request for its
\* url has ended with 201; and while none has, a request that called the
\* existence check goes on to call the fetch itself, unless the database
\* failed the query.
FalhaNaoMarca ==
    /\ \A r \in Reqs :
          pc[r] = "done" /\ status[r] \in {422, 500} =>
              /\ NadaDe(r)
              /\ ~OutraTeveSucesso(r) => NotasDe(request[r].url) = {}
    /\ \A n \in notas_processadas :
          \E r \in Reqs :
              /\ status[r] = 201 /\ n.id = nova_nota_id[r]
              /\ n.url = request[r].url
    /\ \A b \in Reqs :
          /\ status[b] = 409 => OutraTeveSucesso(b)
          /\ calls[b].check = 1 /\ ~OutraTeveSucesso(b) =>
                /\ status[b] # 409
                /\ \/ calls[b].fetch = 1
                   \/ pc[b] = "fetch"
                   \/ pc[b] = "done" /\ ConsultaFalhou(b)

\* C20 witness: a request failed with 500 after it had inserted its header
\* row; a request that arrived later for the same url ran the fetch and
\* ended with 201.
SucessoDepoisDaFalha ==
    \E a, b \in Reqs :
        /\ a \in after[b] /\ request[a].url = request[b].url
        /\ status[a] = 500 /\ nova_nota_id[a] # 0
        /\ calls[b].check = 1 /\ calls[b].fetch = 1 /\ status[b] = 201
        /\ NotasDe(request[b].url) = {NotaEsperada(b)}

====
